---- MODULE Spec2Model ----
(***************************************************************************)
(* A model of src/src/dicom-data.c (libdicom, DICOM Part 5 data           *)
(* structures): Data Elements, Data Sets and Sequences as objects of a     *)
(* heap, the buffers they point to, and the API calls that act on them.    *)
(*                                                                         *)
(* The heap is six functions whose domains are the live objects:           *)
(*   element  : DcmElement   (struct _DcmElement, lines 29-82)             *)
(*   dataset  : DcmDataSet   (struct _DcmDataSet, lines 91-94)             *)
(*   sequence : DcmSequence  (struct _DcmSequence, lines 85-88)            *)
(*   buffer   : malloc'ed strings, string arrays, numeric arrays, bytes    *)
(*   frame    : DcmFrame     (struct _DcmFrame, lines 97-111)              *)
(*   bot      : DcmBOT       (struct _DcmBOT, lines 114-118)               *)
(* A pointer is an id; NULL is 0; a dangling pointer is an id that is not  *)
(* in the domain any more.  Every API function is an operator from a heap  *)
(* H = [el, ds, sq, buf, fr, bt] to a result [H, ok, err, ret]; the        *)
(* actions apply them to the variables and record the call in `last`.      *)
(*                                                                         *)
(* uint32_t is modelled at LengthBits bits (TLC's integers are 32 bit),    *)
(* size_t is wider than uint32_t and is not truncated (an LP64 build).     *)
(* The VR dictionary (dcm_dict_...) and dcm_parse_character_string are not *)
(* part of dicom-data.c; they are modelled from the specification.         *)
(***************************************************************************)
EXTENDS Integers, Sequences, FiniteSets, TLC

VARIABLES element, dataset, sequence, buffer, frame, bot, last

vars == <<element, dataset, sequence, buffer, frame, bot, last>>

----------------------------------------------------------------------------
(* Bounds of the model *)

\* uint32_t (length, vm) is modelled as an unsigned integer of this many bits
LengthBits == 4

\* number of DcmElement, DcmDataSet, DcmSequence objects and buffers alive
MaxElements == 3

MaxDataSets == 2

MaxSequences == 2

MaxBuffers == 3

\* number of DcmFrame and DcmBOT objects alive
MaxFrames == 1

MaxBOTs == 1

\* uint16_t (the numbers of a frame) is modelled at this many bits
ShortBits == 5

\* ssize_t (the offsets of a Basic Offset Table) at this many bits
SsizeBits == 7

\* longest character string a caller passes to a string setter
MaxStrLen == 2

\* largest vm a caller passes to a *_multi setter
MaxVm == 4

\* longest byte buffer a caller passes to set_value_binary
MaxBinLen == 2

\* bits of the int32_t and uint32_t of a numeric value (32 in the code)
WordBits == 18

\* bits of an int64_t and of a uint64_t (64 in the code)
LongBits == 20

----------------------------------------------------------------------------
(* Basic values *)

NULL == 0

RECURSIVE Pow2(_)
Pow2(n) == IF n = 0 THEN 1 ELSE 2 * Pow2(n - 1)

\* 2^LengthBits: uint32_t arithmetic wraps at this value
U32 == Pow2(LengthBits)

ElemIds == 1..MaxElements

DsIds == 1..MaxDataSets

SeqIds == 1..MaxSequences

BufIds == 1..MaxBuffers

FrameIds == 1..MaxFrames

BotIds == 1..MaxBOTs

Backslash == "\\"

Chars == {"a", Backslash}

SeqsUpTo(S, n) == UNION {[1..k -> S] : k \in 0..n}

\* the character strings callers pass to set_value_string
Strings == SeqsUpTo(Chars, MaxStrLen)

strlen(s) == Len(s)

Range(f) == {f[i] : i \in DOMAIN f}

RECURSIVE SumSeq(_)
SumSeq(s) == IF s = <<>> THEN 0 ELSE Head(s) + SumSeq(Tail(s))

\* the function f without the key k (free() of an object)
Without(f, k) == [x \in (DOMAIN f) \ {k} |-> f[x]]

\* the lowest id of ids that is not a key of f (the next allocation)
FreshId(f, ids) == CHOOSE i \in ids \ DOMAIN f : \A j \in ids \ DOMAIN f : i <= j

HasFree(f, ids, n) == Cardinality(ids \ DOMAIN f) >= n

----------------------------------------------------------------------------
(* The VR dictionary: dcm_dict_lookup_vr, dcm_dict_vr_class,               *)
(* dcm_dict_vr_size, dcm_dict_vr_capacity.  Modelled from the              *)
(* specification (section 4.1) over a dictionary of seven tags, one or     *)
(* two per VR class, and one tag more for each of the wider integer VRs;   *)
(* every other tag is unknown.  Capacities are scaled    *)
(* down so that strings of MaxStrLen characters exceed them.               *)

Tags == 0..7

\* two more tags of the dictionary, of groups 0x8000 and above: as
\* uint32_t they are 2^31 or more above the low tags
HighTags == {U32 - 4, U32 - 2}

dcm_dict_lookup_vr(tag) ==
    CASE tag = 1 -> "US"
      [] tag = 2 -> "SS"
      [] tag = 3 -> "FD"
      [] tag = 4 -> "PN"
      [] tag = 5 -> "LT"
      [] tag = 6 -> "OB"
      [] tag = 7 -> "SQ"
      [] tag = 8 -> "SL"
      [] tag = 9 -> "UL"
      [] tag = 10 -> "SV"
      [] tag = 11 -> "UV"
      [] tag \in HighTags -> "US"
      [] OTHER -> "uk"

dcm_dict_vr_class(vr) ==
    CASE vr \in {"US", "SS", "SL", "UL", "SV", "UV", "FD"} -> "NUMERIC"
      [] vr = "PN" -> "STRING_MULTI"
      [] vr = "LT" -> "STRING_SINGLE"
      [] vr = "OB" -> "BINARY"
      [] vr = "SQ" -> "SEQUENCE"
      [] OTHER -> "ERROR"

dcm_dict_vr_size(vr) ==
    CASE vr \in {"US", "SS"} -> 2
      [] vr \in {"SL", "UL"} -> 4
      [] vr \in {"FD", "SV", "UV"} -> 8
      [] OTHER -> 0

dcm_dict_vr_capacity(vr) ==
    CASE vr = "PN" -> 1
      [] vr = "LT" -> 1
      [] OTHER -> 0

----------------------------------------------------------------------------
(* dcm_parse_character_string: split a character string on the backslash  *)
(* separator (specification, section 4.2, set_string).                     *)

RECURSIVE parse_from(_, _)
parse_from(s, cur) ==
    IF s = <<>> THEN <<cur>>
    ELSE IF Head(s) = Backslash
         THEN <<cur>> \o parse_from(Tail(s), <<>>)
         ELSE parse_from(Tail(s), Append(cur, Head(s)))

dcm_parse_character_string(s) == parse_from(s, <<>>)

----------------------------------------------------------------------------
(* Heaps and results *)

Heap ==
    [el |-> element, ds |-> dataset, sq |-> sequence, buf |-> buffer,
     fr |-> frame, bt |-> bot]

Ok(H, ret) == [H |-> H, ok |-> TRUE, err |-> "NONE", ret |-> ret]

Fail(H, code) == [H |-> H, ok |-> FALSE, err |-> code, ret |-> NULL]

SetEl(H, e, el) == [H EXCEPT !.el = [H.el EXCEPT ![e] = el]]

\* malloc of a buffer with contents d
AllocBuf(H, kind, d) ==
    LET b == FreshId(H.buf, BufIds)
    IN  [H |-> [H EXCEPT !.buf = (b :> [k |-> kind, d |-> d]) @@ H.buf], b |-> b]

\* free(): the buffer is not live any more
FreeBuf(H, b) == [H EXCEPT !.buf = Without(H.buf, b)]

\* the value union of struct _DcmElement: k names the member last written,
\* x is a scalar, a buffer id or a sequence id, i the index of a string
\* inside a string array (0: the buffer itself is the string)
ZeroValue == [k |-> "zero", x |-> 0, i |-> 0]

----------------------------------------------------------------------------
(* Elements: creation and destruction *)

\* DCM_NEW(error, DcmElement): a zeroed struct _DcmElement
NewElement ==
    [tag |-> 0, vr |-> "uk", length |-> 0, vm |-> 0, assigned |-> FALSE,
     value |-> ZeroValue, value_pointer |-> NULL,
     value_pointer_array |-> NULL, sequence_pointer |-> NULL]

\* element_set_length: the parameter is a uint32_t, the sum wraps as one
element_set_length(el, length) ==
    LET len32 == length % U32
        even_length == IF len32 % 2 # 0 THEN (len32 + 1) % U32 ELSE len32
    IN  IF el.length = 0 THEN [el EXCEPT !.length = even_length] ELSE el

RECURSIVE dcm_element_destroy(_, _)
RECURSIVE dcm_dataset_destroy(_, _)
RECURSIVE dcm_sequence_destroy(_, _)
RECURSIVE destroy_elements(_, _)
RECURSIVE destroy_items(_, _)

\* dcm_element_destroy: the owned sequence, then the owned buffers, then the
\* element.  Returns the heap.
dcm_element_destroy(H, e) ==
    IF e = NULL THEN H
    ELSE
    LET el == H.el[e]
        H1 == IF el.sequence_pointer # NULL
              THEN dcm_sequence_destroy(H, el.sequence_pointer) ELSE H
        H2 == IF el.value_pointer # NULL
              THEN FreeBuf(H1, el.value_pointer) ELSE H1
        H3 == IF el.value_pointer_array # NULL
              THEN FreeBuf(H2, el.value_pointer_array) ELSE H2
    IN  [H3 EXCEPT !.el = Without(H3.el, e)]

\* HASH_ITER over the elements of a data set, destroying each
destroy_elements(H, es) ==
    IF es = <<>> THEN H
    ELSE destroy_elements(dcm_element_destroy(H, Head(es)), Tail(es))

\* dcm_dataset_destroy
dcm_dataset_destroy(H, d) ==
    IF d = NULL THEN H
    ELSE LET H1 == destroy_elements(H, H.ds[d].elements)
         IN  [H1 EXCEPT !.ds = Without(H1.ds, d)]

\* utarray_free: destroy_sequence_item_icd on every item
destroy_items(H, items) ==
    IF items = <<>> THEN H
    ELSE destroy_items(
             IF Head(items) # NULL THEN dcm_dataset_destroy(H, Head(items)) ELSE H,
             Tail(items))

\* (C36) dcm_sequence_destroy with an array that has no destructor for its
\* items
dcm_sequence_destroy_shallow(H, s) ==
    IF s = NULL THEN H
    ELSE [H EXCEPT !.sq = Without(H.sq, s)]

\* dcm_sequence_destroy
dcm_sequence_destroy(H, s) ==
    IF s = NULL THEN H
    ELSE LET H1 == destroy_items(H, H.sq[s].items)
         IN  [H1 EXCEPT !.sq = Without(H1.sq, s)]

\* dcm_element_create: the element is allocated, given its tag, the
\* dictionary's VR and the even length, and destroyed again (with no error
\* set) when the VR is unknown
dcm_element_create(H, tag, length) ==
    LET e == FreshId(H.el, ElemIds)
        el == element_set_length(
                  [NewElement EXCEPT !.tag = tag, !.vr = dcm_dict_lookup_vr(tag)],
                  length)
        H1 == [H EXCEPT !.el = (e :> el) @@ H.el]
    IN  IF el.vr = "uk"
        THEN [H |-> dcm_element_destroy(H1, e), ok |-> FALSE, err |-> "NONE",
              ret |-> NULL]
        ELSE Ok(H1, e)

----------------------------------------------------------------------------
(* Elements: the checks *)

element_check_index(el, index) == index < el.vm

\* (C26) element_check_string without its test
element_check_string_always(el) == TRUE

element_check_string(el) ==
    dcm_dict_vr_class(el.vr) \in {"STRING_MULTI", "STRING_SINGLE"}

element_check_assigned(el) == el.assigned

\* (C2) element_check_not_assigned without its test
element_check_not_assigned_always(el) == TRUE

element_check_not_assigned(el) == ~el.assigned

element_check_numeric(el) == dcm_dict_vr_class(el.vr) = "NUMERIC"

element_check_integer(el) == el.vr \notin {"FL", "FD"}

element_check_float(el) == el.vr \in {"FL", "FD"}

element_check_binary(el) == dcm_dict_vr_class(el.vr) = "BINARY"

element_check_sequence(el) == dcm_dict_vr_class(el.vr) = "SEQUENCE"

----------------------------------------------------------------------------
(* Elements: reading the value union *)

\* The string a char* of the union points to: v.x is the buffer, v.i > 0
\* selects a string of a string array.  A pointer that is NULL, dangling or
\* of another member of the union has no defined target: junk.
DerefStr(H, v, junk) ==
    IF v.k = "str" /\ v.x \in DOMAIN H.buf
    THEN LET b == H.buf[v.x]
         IN  IF v.i = 0 /\ b.k = "str" THEN b.d
             ELSE IF v.i > 0 /\ b.k = "strs" /\ v.i <= Len(b.d) THEN b.d[v.i]
             ELSE junk
    ELSE junk

\* (C13) value.multi.str[index] that counts the strings from one
DerefStrs_from_one(H, v, index, junk) ==
    IF v.k = "strs" /\ v.x \in DOMAIN H.buf /\ H.buf[v.x].k = "strs"
       /\ 1 <= index /\ index <= Len(H.buf[v.x].d)
    THEN H.buf[v.x].d[index]
    ELSE junk

\* value.multi.str[index]
DerefStrs(H, v, index, junk) ==
    IF v.k = "strs" /\ v.x \in DOMAIN H.buf /\ H.buf[v.x].k = "strs"
       /\ index < Len(H.buf[v.x].d)
    THEN H.buf[v.x].d[index + 1]
    ELSE junk

\* dcm_element_get_value_string
dcm_element_get_value_string(H, el, index) ==
    IF ~element_check_assigned(el) \/ ~element_check_string(el)
       \/ ~element_check_index(el, index)
    THEN [ok |-> FALSE, err |-> "INVALID", val |-> <<>>]
    ELSE [ok |-> TRUE, err |-> "NONE",
          val |-> IF el.vm = 1 THEN DerefStr(H, el.value, <<>>)
                  ELSE DerefStrs(H, el.value, index, <<>>)]

\* (C6) element_check_capacity that puts `assigned` back only when the
\* values fit
element_check_capacity_sticky(H, el, capacity) ==
    LET was_assigned == el.assigned
        el1 == [el EXCEPT !.assigned = TRUE]
        fits == \A i \in 0..(el.vm - 1) :
                    LET g == dcm_element_get_value_string(H, el1, i)
                    IN  g.ok /\ strlen(g.val) <= capacity
    IN  [el |-> IF fits THEN [el1 EXCEPT !.assigned = was_assigned] ELSE el1,
         ok |-> fits]

\* element_check_capacity: `assigned` is switched on to read the values and
\* put back on every path.  Returns the element and the verdict.
element_check_capacity(H, el, capacity) ==
    LET was_assigned == el.assigned
        el1 == [el EXCEPT !.assigned = TRUE]
        fits == \A i \in 0..(el.vm - 1) :
                    LET g == dcm_element_get_value_string(H, el1, i)
                    IN  g.ok /\ strlen(g.val) <= capacity
    IN  [el |-> [el1 EXCEPT !.assigned = was_assigned], ok |-> fits]

\* (C9) dcm_element_validate without the test of the length of a NUMERIC
\* element
dcm_element_validate_any_length(H, el) ==
    LET correct_vr == dcm_dict_lookup_vr(el.tag)
        klass == dcm_dict_vr_class(el.vr)
    IN  IF ~element_check_not_assigned(el)
        THEN [el |-> el, ok |-> FALSE]
        ELSE IF el.vr # correct_vr \/ klass = "ERROR"
        THEN [el |-> el, ok |-> FALSE]
        ELSE LET c == IF klass \in {"STRING_MULTI", "STRING_SINGLE"}
                      THEN element_check_capacity(H, el, dcm_dict_vr_capacity(el.vr))
                      ELSE [el |-> el, ok |-> TRUE]
             IN  IF ~c.ok THEN [el |-> c.el, ok |-> FALSE]
                 ELSE [el |-> [c.el EXCEPT !.assigned = TRUE], ok |-> TRUE]

\* (C10) dcm_element_validate that tests the capacity of STRING_SINGLE
\* elements only
dcm_element_validate_single_only(H, el) ==
    LET correct_vr == dcm_dict_lookup_vr(el.tag)
        klass == dcm_dict_vr_class(el.vr)
    IN  IF ~element_check_not_assigned(el)
        THEN [el |-> el, ok |-> FALSE]
        ELSE IF el.vr # correct_vr \/ klass = "ERROR"
        THEN [el |-> el, ok |-> FALSE]
        ELSE IF klass = "NUMERIC" /\ el.length # el.vm * dcm_dict_vr_size(el.vr)
        THEN [el |-> el, ok |-> FALSE]
        ELSE LET c == IF klass = "STRING_SINGLE"
                      THEN element_check_capacity(H, el, dcm_dict_vr_capacity(el.vr))
                      ELSE [el |-> el, ok |-> TRUE]
             IN  IF ~c.ok THEN [el |-> c.el, ok |-> FALSE]
                 ELSE [el |-> [c.el EXCEPT !.assigned = TRUE], ok |-> TRUE]

\* dcm_element_validate.  Returns the element and the verdict.
dcm_element_validate(H, el) ==
    LET correct_vr == dcm_dict_lookup_vr(el.tag)
        klass == dcm_dict_vr_class(el.vr)
    IN  IF ~element_check_not_assigned(el)
        THEN [el |-> el, ok |-> FALSE]
        ELSE IF el.vr # correct_vr \/ klass = "ERROR"
        THEN [el |-> el, ok |-> FALSE]
        ELSE IF klass = "NUMERIC" /\ el.length # el.vm * dcm_dict_vr_size(el.vr)
        THEN [el |-> el, ok |-> FALSE]
        ELSE LET c == IF klass \in {"STRING_MULTI", "STRING_SINGLE"}
                      THEN element_check_capacity(H, el, dcm_dict_vr_capacity(el.vr))
                      ELSE [el |-> el, ok |-> TRUE]
             IN  IF ~c.ok THEN [el |-> c.el, ok |-> FALSE]
                 ELSE [el |-> [c.el EXCEPT !.assigned = TRUE], ok |-> TRUE]

----------------------------------------------------------------------------
(* Elements: the string setters *)

\* dcm_element_set_value_string_multi(error, element, values, vm, steal):
\* values is the id of a string array buffer
dcm_element_set_value_string_multi(H, e, values, vm, steal) ==
    LET el == H.el[e]
        klass == dcm_dict_vr_class(el.vr)
        strs == H.buf[values].d
    IN  IF ~element_check_not_assigned(el) \/ ~element_check_string(el)
        THEN Fail(H, "INVALID")
        ELSE IF vm # 1 /\ klass # "STRING_MULTI"
        THEN Fail(H, "INVALID")
        ELSE
        LET el1 == IF vm = 1
                   THEN [el EXCEPT !.value = [k |-> "str", x |-> values, i |-> 1],
                                   !.vm = 1]
                   ELSE [el EXCEPT !.value = [k |-> "strs", x |-> values, i |-> 0],
                                   !.vm = vm]
            length == SumSeq([i \in 1..vm |-> strlen(strs[i])])
                      + (IF vm > 1 THEN vm - 1 ELSE 0)
            el2 == element_set_length(el1, length)
            v == dcm_element_validate(H, el2)
        IN  IF ~v.ok THEN Fail(SetEl(H, e, v.el), "INVALID")
            ELSE Ok(SetEl(H, e, IF steal
                                THEN [v.el EXCEPT !.value_pointer_array = values]
                                ELSE v.el), NULL)

\* element_set_value_string(error, element, value, steal): value is the id
\* of a string buffer
element_set_value_string(H, e, value, steal) ==
    LET el == H.el[e]
        klass == dcm_dict_vr_class(el.vr)
    IN  IF ~element_check_not_assigned(el) \/ ~element_check_string(el)
        THEN Fail(H, "INVALID")
        ELSE IF klass = "STRING_MULTI"
        THEN LET parts == dcm_parse_character_string(H.buf[value].d)
                 vm == Len(parts)
                 A == AllocBuf(H, "strs", parts)
                 r == dcm_element_set_value_string_multi(A.H, e, A.b, vm, TRUE)
             IN  IF ~r.ok
                 THEN \* dcm_free_string_array(values, vm)
                      Fail(FreeBuf(r.H, A.b), r.err)
                 ELSE Ok(IF steal
                         THEN SetEl(r.H, e, [r.H.el[e] EXCEPT !.value_pointer = value])
                         ELSE r.H, NULL)
        ELSE LET el1 == [el EXCEPT !.value = [k |-> "str", x |-> value, i |-> 0],
                                   !.vm = 1]
                 el2 == element_set_length(el1, strlen(H.buf[value].d))
                 v == dcm_element_validate(H, el2)
             IN  IF ~v.ok THEN Fail(SetEl(H, e, v.el), "INVALID")
                 ELSE Ok(SetEl(H, e, IF steal
                                     THEN [v.el EXCEPT !.value_pointer = value]
                                     ELSE v.el), NULL)

dcm_element_set_value_string(H, e, value) ==
    element_set_value_string(H, e, value, TRUE)

dcm_element_set_value_string_static(H, e, value) ==
    element_set_value_string(H, e, value, FALSE)

----------------------------------------------------------------------------
(* Elements: the numeric setters and getters *)

\* the integer types DCM_SWITCH_NUMERIC casts to: US is uint16_t, SS
\* int16_t, UL uint32_t, SL int32_t, UV uint64_t, SV int64_t
IntBits(vr) ==
    CASE vr \in {"US", "SS"} -> 16
      [] vr \in {"UL", "SL"} -> WordBits
      [] OTHER -> LongBits

IntSigned(vr) == vr \in {"SS", "SL", "SV"}

\* int64_to_value: *((TYPE *) result) = value, the conversion to TYPE
int64_to_value(vr, value) ==
    LET m == Pow2(IntBits(vr))
        u == value % m
    IN  IF IntSigned(vr) /\ u >= m \div 2 THEN u - m ELSE u

\* value_to_int64 without the conversion of the uint64_t to int64_t
value_to_int64_unsigned(vr, stored) == stored % Pow2(LongBits)

\* value_to_int64: uint64_t result = *((TYPE *) value), returned as int64_t
value_to_int64(vr, stored) ==
    LET result == stored % Pow2(LongBits)
    IN  IF result >= Pow2(LongBits - 1) THEN result - Pow2(LongBits) ELSE result

\* double_to_value / value_to_double for FD: a double is kept as it is
double_to_value(vr, value) == value

value_to_double(vr, stored) == stored

\* dcm_element_set_value_integer
dcm_element_set_value_integer(H, e, value) ==
    LET el == H.el[e]
    IN  IF ~element_check_not_assigned(el) \/ ~element_check_numeric(el)
           \/ ~element_check_integer(el)
        THEN Fail(H, "INVALID")
        ELSE
        LET el1 == [el EXCEPT !.value = [k |-> "num",
                                         x |-> int64_to_value(el.vr, value),
                                         i |-> 0],
                              !.vm = 1]
            el2 == element_set_length(el1, dcm_dict_vr_size(el.vr))
            v == dcm_element_validate(H, el2)
        IN  IF ~v.ok THEN Fail(SetEl(H, e, v.el), "INVALID")
            ELSE Ok(SetEl(H, e, v.el), NULL)

\* dcm_element_set_value_double
dcm_element_set_value_double(H, e, value) ==
    LET el == H.el[e]
    IN  IF ~element_check_not_assigned(el) \/ ~element_check_numeric(el)
           \/ ~element_check_float(el)
        THEN Fail(H, "INVALID")
        ELSE
        LET el1 == [el EXCEPT !.value = [k |-> "num",
                                         x |-> double_to_value(el.vr, value),
                                         i |-> 0],
                              !.vm = 1]
            el2 == element_set_length(el1, dcm_dict_vr_size(el.vr))
            v == dcm_element_validate(H, el2)
        IN  IF ~v.ok THEN Fail(SetEl(H, e, v.el), "INVALID")
            ELSE Ok(SetEl(H, e, v.el), NULL)

\* dcm_element_set_value_numeric_multi(error, element, value, vm, steal):
\* value is the id of a numeric array buffer
dcm_element_set_value_numeric_multi(H, e, value, vm, steal) ==
    LET el == H.el[e]
    IN  IF ~element_check_not_assigned(el) \/ ~element_check_numeric(el)
        THEN Fail(H, "INVALID")
        ELSE
        LET el1 == IF vm = 1
                   THEN \* value_to_value
                        [el EXCEPT !.value = [k |-> "num", x |-> H.buf[value].d[1],
                                              i |-> 0]]
                   ELSE [el EXCEPT !.value = [k |-> "nums", x |-> value, i |-> 0]]
            el2 == [el1 EXCEPT !.vm = vm]
            el3 == element_set_length(el2, vm * dcm_dict_vr_size(el.vr))
            v == dcm_element_validate(H, el3)
        IN  IF ~v.ok THEN Fail(SetEl(H, e, v.el), "INVALID")
            ELSE Ok(SetEl(H, e, IF steal
                                THEN [v.el EXCEPT !.value_pointer = value]
                                ELSE v.el), NULL)

\* the scalar at index of a numeric element
NumAt(H, el, index) ==
    IF el.vm = 1
    THEN IF el.value.k = "num" THEN el.value.x ELSE 0
    ELSE IF el.value.k = "nums" /\ el.value.x \in DOMAIN H.buf
            /\ index < Len(H.buf[el.value.x].d)
         THEN H.buf[el.value.x].d[index + 1]
         ELSE 0

\* dcm_element_get_value_integer
dcm_element_get_value_integer(H, el, index) ==
    IF ~element_check_assigned(el) \/ ~element_check_numeric(el)
       \/ ~element_check_integer(el) \/ ~element_check_index(el, index)
    THEN [ok |-> FALSE, err |-> "INVALID", val |-> 0]
    ELSE [ok |-> TRUE, err |-> "NONE",
          val |-> value_to_int64(el.vr, NumAt(H, el, index))]

\* dcm_element_get_value_double
dcm_element_get_value_double(H, el, index) ==
    IF ~element_check_assigned(el) \/ ~element_check_numeric(el)
       \/ ~element_check_float(el) \/ ~element_check_index(el, index)
    THEN [ok |-> FALSE, err |-> "INVALID", val |-> 0]
    ELSE [ok |-> TRUE, err |-> "NONE",
          val |-> value_to_double(el.vr, NumAt(H, el, index))]

----------------------------------------------------------------------------
(* Elements: binary values *)

\* dcm_element_get_value_binary: the pointer (a buffer id)
dcm_element_get_value_binary(H, el) ==
    IF ~element_check_assigned(el) \/ ~element_check_binary(el)
    THEN [ok |-> FALSE, err |-> "INVALID", val |-> NULL]
    ELSE [ok |-> TRUE, err |-> "NONE", val |-> el.value.x]

\* dcm_element_set_value_binary(error, element, value, length, steal):
\* value is the id of a byte buffer
dcm_element_set_value_binary(H, e, value, length, steal) ==
    LET el == H.el[e]
    IN  IF ~element_check_not_assigned(el) \/ ~element_check_binary(el)
        THEN Fail(H, "INVALID")
        ELSE
        LET el1 == [el EXCEPT !.vm = 1,
                              !.value = [k |-> "bytes", x |-> value, i |-> 0]]
            el2 == element_set_length(el1, length)
            v == dcm_element_validate(H, el2)
        IN  IF ~v.ok THEN Fail(SetEl(H, e, v.el), "INVALID")
            ELSE Ok(SetEl(H, e, IF steal
                                THEN [v.el EXCEPT !.value_pointer = value]
                                ELSE v.el), NULL)

----------------------------------------------------------------------------
(* Data Sets.  dataset[d].elements is the uthash table: the element ids in *)
(* insertion order (the hh.next chain), at most one per tag.               *)

\* dcm_dataset_create
dcm_dataset_create(H) ==
    LET d == FreshId(H.ds, DsIds)
    IN  Ok([H EXCEPT !.ds = (d :> [elements |-> <<>>, is_locked |-> FALSE]) @@ H.ds], d)

\* HASH_FIND_INT(dataset->elements, &tag, element)
HASH_FIND_INT(H, d, tag) ==
    LET es == H.ds[d].elements
        hits == {i \in 1..Len(es) : H.el[es[i]].tag = tag}
    IN  IF hits = {} THEN NULL
        ELSE es[CHOOSE i \in hits : \A j \in hits : i <= j]

\* (C27) HASH_DEL that fills the place of the element with the last of the
\* chain
HASH_DEL_move_last(es, e) ==
    [i \in 1..(Len(es) - 1) |-> IF es[i] = e THEN es[Len(es)] ELSE es[i]]

\* HASH_DEL(dataset->elements, element)
HASH_DEL(es, e) == SelectSeq(es, LAMBDA x : x # e)

\* dcm_dataset_contains
dcm_dataset_contains(H, d, tag) == HASH_FIND_INT(H, d, tag)

\* dcm_dataset_get
dcm_dataset_get(H, d, tag) ==
    LET e == dcm_dataset_contains(H, d, tag)
    IN  IF e = NULL THEN Fail(H, "INVALID") ELSE Ok(H, e)

\* dcm_dataset_count
dcm_dataset_count(H, d) == Len(H.ds[d].elements)

\* dcm_dataset_foreach: the elements fn is called with, in the order of the
\* calls (the hh.next chain from dataset->elements)
dcm_dataset_foreach(H, d) == H.ds[d].elements

\* compare_tags: the difference of the two uint32_t, returned as an int
compare_tags(a, b) ==
    LET diff == (a - b) % U32
    IN  IF diff >= U32 \div 2 THEN diff - U32 ELSE diff

\* the arrays with the members of the array tags, in every order
Arrangements(tags) ==
    LET n == Len(tags)
        orders == {f \in [1..n -> 1..n] : \A i, j \in 1..n : i # j => f[i] # f[j]}
    IN  {[i \in 1..n |-> tags[f[i]]] : f \in orders}

\* qsort(tags, n, sizeof(uint32_t), compare_tags): the arrays it may leave.
\* The array is in the order of compare_tags when that is an order of
\* its members; when it is none (the comparison contradicts itself) the
\* behaviour is undefined and any arrangement may come out.
qsort(tags) ==
    LET ordered == {p \in Arrangements(tags) :
                       \A i, j \in 1..Len(p) : i < j => compare_tags(p[i], p[j]) <= 0}
    IN  IF ordered # {} THEN ordered ELSE Arrangements(tags)

\* dcm_dataset_copy_tags(dataset, tags, n): the arrays the caller's array
\* tags of n entries may hold afterwards
dcm_dataset_copy_tags(H, d, tags, n) ==
    LET es == H.ds[d].elements
    IN  qsort([i \in 1..n |-> IF i <= Len(es) THEN H.el[es[i]].tag ELSE tags[i]])

\* dcm_dataset_is_locked
dcm_dataset_is_locked(H, d) == H.ds[d].is_locked

\* (C14) dcm_dataset_lock that flips the flag
dcm_dataset_lock_flip(H, d) ==
    [H EXCEPT !.ds = [H.ds EXCEPT ![d].is_locked = ~H.ds[d].is_locked]]

\* dcm_dataset_lock
dcm_dataset_lock(H, d) == [H EXCEPT !.ds = [H.ds EXCEPT ![d].is_locked = TRUE]]

\* (C1) the test of dataset->is_locked left out
dataset_check_unlocked_always(ds) == TRUE

\* the test of dataset->is_locked that opens insert and remove
dataset_check_unlocked(ds) == ~ds.is_locked

\* (C5) HASH_ADD_INT that makes the element the whole chain
HASH_ADD_INT_head(es, e) == <<e>>

\* HASH_ADD_INT(dataset->elements, tag, element): appended to the chain
HASH_ADD_INT(es, e) == Append(es, e)

\* (C4) dcm_dataset_insert that does not look for the tag
dcm_dataset_insert_unchecked(H, d, e) ==
    IF ~dataset_check_unlocked(H.ds[d])
    THEN Fail(dcm_element_destroy(H, e), "INVALID")
    ELSE Ok([H EXCEPT !.ds = [H.ds EXCEPT ![d].elements = HASH_ADD_INT(@, e)]], NULL)

\* dcm_dataset_insert
dcm_dataset_insert(H, d, e) ==
    IF ~dataset_check_unlocked(H.ds[d])
    THEN Fail(dcm_element_destroy(H, e), "INVALID")
    ELSE IF HASH_FIND_INT(H, d, H.el[e].tag) # NULL
    THEN Fail(dcm_element_destroy(H, e), "INVALID")
    ELSE Ok([H EXCEPT !.ds = [H.ds EXCEPT ![d].elements = HASH_ADD_INT(@, e)]], NULL)

\* (C23) dcm_dataset_remove that unlinks the matched element and leaves it
\* allocated
dcm_dataset_remove_unlink_only(H, d, tag) ==
    IF ~dataset_check_unlocked(H.ds[d])
    THEN Fail(H, "INVALID")
    ELSE LET g == dcm_dataset_get(H, d, tag)
         IN  IF g.ret = NULL THEN Fail(H, g.err)
             ELSE Ok([H EXCEPT !.ds = [H.ds EXCEPT
                                   ![d].elements = HASH_DEL(@, g.ret)]], NULL)

\* dcm_dataset_remove
dcm_dataset_remove(H, d, tag) ==
    IF ~dataset_check_unlocked(H.ds[d])
    THEN Fail(H, "INVALID")
    ELSE LET g == dcm_dataset_get(H, d, tag)
         IN  IF g.ret = NULL THEN Fail(H, g.err)
             ELSE LET H1 == [H EXCEPT !.ds = [H.ds EXCEPT
                                   ![d].elements = HASH_DEL(@, g.ret)]]
                  IN  Ok(dcm_element_destroy(H1, g.ret), NULL)

----------------------------------------------------------------------------
(* Sequences.  sequence[s].items is the utarray of SequenceItem: the data  *)
(* set ids in append order.                                                *)

\* dcm_sequence_create
dcm_sequence_create(H) ==
    LET s == FreshId(H.sq, SeqIds)
    IN  Ok([H EXCEPT !.sq = (s :> [items |-> <<>>, is_locked |-> FALSE]) @@ H.sq], s)

\* dcm_sequence_count
dcm_sequence_count(H, s) == Len(H.sq[s].items)

\* dcm_sequence_is_locked
dcm_sequence_is_locked(H, s) == H.sq[s].is_locked

\* (C24) dcm_sequence_lock that turns the lock over
dcm_sequence_lock_toggle(H, s) ==
    [H EXCEPT !.sq = [H.sq EXCEPT ![s].is_locked = ~@]]

\* dcm_sequence_lock
dcm_sequence_lock(H, s) == [H EXCEPT !.sq = [H.sq EXCEPT ![s].is_locked = TRUE]]

\* (C17) the test of seq->is_locked left out
sequence_check_unlocked_always(sq) == TRUE

\* the test of seq->is_locked that opens append and remove
sequence_check_unlocked(sq) == ~sq.is_locked

\* (C15) create_sequence_item that leaves the data set as it is
create_sequence_item_as_is(H, d) == H

\* create_sequence_item and copy_sequence_item_icd: the data set is locked
create_sequence_item(H, d) == dcm_dataset_lock(H, d)

\* (C20) dcm_sequence_append that leaves the data set alone when it fails
dcm_sequence_append_keeping(H, s, d) ==
    IF ~sequence_check_unlocked(H.sq[s])
    THEN Fail(H, "INVALID")
    ELSE LET H1 == create_sequence_item(H, d)
         IN  Ok([H1 EXCEPT !.sq = [H1.sq EXCEPT ![s].items = Append(@, d)]], NULL)

\* dcm_sequence_append
dcm_sequence_append(H, s, d) ==
    IF ~sequence_check_unlocked(H.sq[s])
    THEN Fail(dcm_dataset_destroy(H, d), "INVALID")
    ELSE LET H1 == create_sequence_item(H, d)
         IN  Ok([H1 EXCEPT !.sq = [H1.sq EXCEPT ![s].items = Append(@, d)]], NULL)

\* (C16) dcm_sequence_get that takes the index for a count from one
dcm_sequence_get_from_one(H, s, index) ==
    LET length == Len(H.sq[s].items)
    IN  IF index > length \/ index = 0 THEN Fail(H, "INVALID")
        ELSE Ok(dcm_dataset_lock(H, H.sq[s].items[index]), H.sq[s].items[index])

\* dcm_sequence_get
dcm_sequence_get(H, s, index) ==
    LET length == Len(H.sq[s].items)
    IN  IF index >= length THEN Fail(H, "INVALID")
        ELSE IF H.sq[s].items[index + 1] = NULL THEN Fail(H, "INVALID")
        ELSE Ok(dcm_dataset_lock(H, H.sq[s].items[index + 1]),
                H.sq[s].items[index + 1])

\* the loop of dcm_sequence_foreach from item i on: the item is locked, then
\* fn is called with it
RECURSIVE sequence_foreach_from(_, _, _)
sequence_foreach_from(H, s, i) ==
    IF i > Len(H.sq[s].items) THEN H
    ELSE sequence_foreach_from(dcm_dataset_lock(H, H.sq[s].items[i]), s, i + 1)

\* dcm_sequence_foreach: ret is the heap's sequence, val the items fn is
\* called with, in the order of the calls
dcm_sequence_foreach(H, s) ==
    [H |-> sequence_foreach_from(H, s, 1), ok |-> TRUE, err |-> "NONE",
     ret |-> NULL, val |-> H.sq[s].items]

\* (C18) utarray_erase that drops the last item
utarray_erase_back(items, index) == SubSeq(items, 1, Len(items) - 1)

\* utarray_erase(seq->items, index, 1)
utarray_erase(items, index) ==
    [i \in 1..(Len(items) - 1) |-> IF i <= index THEN items[i] ELSE items[i + 1]]

\* dcm_sequence_remove (returns nothing; ok says that no error was set)
dcm_sequence_remove(H, s, index) ==
    IF ~sequence_check_unlocked(H.sq[s]) THEN Fail(H, "INVALID")
    ELSE IF index >= Len(H.sq[s].items) THEN Fail(H, "INVALID")
    ELSE LET d == H.sq[s].items[index + 1]
             H1 == [H EXCEPT !.sq = [H.sq EXCEPT ![s].items = utarray_erase(@, index)]]
         IN  Ok(dcm_dataset_destroy(H1, d), NULL)

----------------------------------------------------------------------------
(* Elements: sequence values *)

\* dcm_element_get_value_sequence: locks the sequence it returns
dcm_element_get_value_sequence(H, e) ==
    LET el == H.el[e]
    IN  IF ~element_check_assigned(el) \/ ~element_check_sequence(el)
        THEN Fail(H, "INVALID")
        ELSE Ok(dcm_sequence_lock(H, el.value.x), el.value.x)

\* the loop of dcm_element_set_value_sequence from item i on: every item is
\* fetched with dcm_sequence_get and the lengths of its elements are added
\* to the uint32_t length
RECURSIVE sequence_length(_, _, _, _)
sequence_length(H, s, i, length) ==
    IF i >= dcm_sequence_count(H, s) THEN [H |-> H, ok |-> TRUE, length |-> length]
    ELSE LET g == dcm_sequence_get(H, s, i)
         IN  IF g.ret = NULL THEN [H |-> g.H, ok |-> FALSE, length |-> length]
             ELSE sequence_length(
                      g.H, s, i + 1,
                      (length + SumSeq([j \in 1..Len(g.H.ds[g.ret].elements) |->
                                          g.H.el[g.H.ds[g.ret].elements[j]].length]))
                      % U32)

\* dcm_element_set_value_sequence
dcm_element_set_value_sequence(H, e, value) ==
    LET el == H.el[e]
    IN  IF ~element_check_not_assigned(el) \/ ~element_check_sequence(el)
        THEN Fail(H, "INVALID")
        ELSE
        LET L == sequence_length(H, value, 0, 0)
        IN  IF ~L.ok THEN Fail(L.H, "INVALID")
            ELSE
            LET el1 == element_set_length(el, L.length)
                el2 == [el1 EXCEPT !.value = [k |-> "sq", x |-> value, i |-> 0],
                                   !.vm = 1]
                v == dcm_element_validate(L.H, el2)
            IN  IF ~v.ok THEN Fail(SetEl(L.H, e, v.el), "INVALID")
                ELSE Ok(SetEl(L.H, e, [v.el EXCEPT !.sequence_pointer = value]), NULL)

----------------------------------------------------------------------------
(* Cloning.  u names what the build does where the C standard leaves it    *)
(* open: u.zalloc says whether an allocation of 0 bytes returns a pointer  *)
(* (or NULL), u.junk and u.byte are what a read through a dangling pointer *)
(* or past the end of a buffer finds.                                      *)

UChoices == [zalloc : BOOLEAN, junk : {<<>>, <<"a", "a">>}, byte : {0, 1}]

RECURSIVE dcm_element_clone(_, _, _)
RECURSIVE dcm_dataset_clone(_, _, _)
RECURSIVE clone_elements(_, _, _, _)
RECURSIVE clone_items(_, _, _, _, _)
RECURSIVE clone_item(_, _, _, _, _)
RECURSIVE clone_append(_, _, _, _, _)
RECURSIVE clone_insert(_, _, _, _)
RECURSIVE clone_inserted(_, _, _, _)

\* case DCM_CLASS_STRING_MULTI / DCM_CLASS_STRING_SINGLE of dcm_element_clone
clone_string(H, el, c, u) ==
    IF el.vm = 1 /\ el.value.k # "zero"
    THEN LET A == AllocBuf(H, "str", DerefStr(H, el.value, u.junk))
         IN  [H |-> SetEl(A.H, c, [A.H.el[c] EXCEPT
                        !.value = [k |-> "str", x |-> A.b, i |-> 0],
                        !.value_pointer = A.b,
                        !.vm = 1]),
              ok |-> TRUE, err |-> "NONE"]
    ELSE IF el.vm > 1 /\ el.value.k # "zero"
    THEN LET A == AllocBuf(H, "strs",
                           [i \in 1..el.vm |-> DerefStrs(H, el.value, i - 1, u.junk)])
         IN  [H |-> SetEl(A.H, c, [A.H.el[c] EXCEPT
                        !.value = [k |-> "strs", x |-> A.b, i |-> 0],
                        !.value_pointer_array = A.b,
                        !.vm = el.vm]),
              ok |-> TRUE, err |-> "NONE"]
    ELSE [H |-> H, ok |-> TRUE, err |-> "NONE"]

\* the first n bytes at a byte pointer
ReadBytes(H, v, n, u) ==
    [i \in 1..n |-> IF v.k = "bytes" /\ v.x \in DOMAIN H.buf /\ H.buf[v.x].k = "bytes"
                       /\ i <= Len(H.buf[v.x].d)
                    THEN H.buf[v.x].d[i] ELSE u.byte]

\* case DCM_CLASS_BINARY of dcm_element_clone
clone_binary(H, el, c, u) ==
    IF el.value.k # "zero"
    THEN IF el.length = 0 /\ ~u.zalloc
         THEN [H |-> dcm_element_destroy(H, c), ok |-> FALSE, err |-> "NOMEM"]
         ELSE LET A == AllocBuf(H, "bytes", ReadBytes(H, el.value, el.length, u))
              IN  [H |-> SetEl(A.H, c, [A.H.el[c] EXCEPT
                             !.value = [k |-> "bytes", x |-> A.b, i |-> 0],
                             !.value_pointer = A.b,
                             !.vm = 1]),
                   ok |-> TRUE, err |-> "NONE"]
    ELSE [H |-> H, ok |-> TRUE, err |-> "NONE"]

\* case DCM_CLASS_NUMERIC of dcm_element_clone
clone_numeric(H, el, c, u) ==
    IF el.vm = 1
    THEN [H |-> SetEl(H, c, [H.el[c] EXCEPT !.value = el.value, !.vm = 1]),
          ok |-> TRUE, err |-> "NONE"]
    ELSE IF el.vm = 0 /\ ~u.zalloc
    THEN [H |-> dcm_element_destroy(H, c), ok |-> FALSE, err |-> "NOMEM"]
    ELSE LET A == AllocBuf(H, "nums",
                     [i \in 1..el.vm |->
                         IF el.value.k = "nums" /\ el.value.x \in DOMAIN H.buf
                            /\ H.buf[el.value.x].k = "nums"
                            /\ i <= Len(H.buf[el.value.x].d)
                         THEN H.buf[el.value.x].d[i] ELSE u.byte])
         IN  [H |-> SetEl(A.H, c, [A.H.el[c] EXCEPT
                        !.value = [k |-> "nums", x |-> A.b, i |-> 0],
                        !.value_pointer = A.b,
                        !.vm = el.vm]),
              ok |-> TRUE, err |-> "NONE"]

\* the loop of case DCM_CLASS_SEQUENCE from item i on: each item of
\* from_seq is fetched, cloned and appended to seq
clone_items(H, from_seq, seq, i, u) ==
    IF i >= dcm_sequence_count(H, from_seq) THEN [H |-> H, ok |-> TRUE, err |-> "NONE"]
    ELSE clone_item(dcm_sequence_get(H, from_seq, i), from_seq, seq, i, u)

\* the body of the loop once dcm_sequence_get has returned g
clone_item(g, from_seq, seq, i, u) ==
    IF g.ret = NULL THEN [H |-> g.H, ok |-> FALSE, err |-> g.err]
    ELSE clone_append(dcm_dataset_clone(g.H, g.ret, u), from_seq, seq, i, u)

\* the body of the loop once dcm_dataset_clone has returned cd
clone_append(cd, from_seq, seq, i, u) ==
    IF cd.ret = NULL THEN [H |-> cd.H, ok |-> FALSE, err |-> cd.err]
    ELSE clone_items(dcm_sequence_append(cd.H, seq, cd.ret).H, from_seq, seq, i + 1, u)

\* the error paths of case DCM_CLASS_SEQUENCE: dcm_sequence_destroy(seq),
\* dcm_element_destroy(clone), return NULL
clone_abandon(H, seq, c, err) ==
    [H |-> dcm_element_destroy(dcm_sequence_destroy(H, seq), c),
     ok |-> FALSE, err |-> err]

\* case DCM_CLASS_SEQUENCE once dcm_element_set_value_sequence returned r
clone_sequence_set(r, seq, c) ==
    IF ~r.ok THEN clone_abandon(r.H, seq, c, r.err)
    ELSE [H |-> r.H, ok |-> TRUE, err |-> "NONE"]

\* case DCM_CLASS_SEQUENCE once the loop over the items returned I
clone_sequence_items(I, seq, c) ==
    IF ~I.ok THEN clone_abandon(I.H, seq, c, I.err)
    ELSE clone_sequence_set(dcm_element_set_value_sequence(I.H, c, seq), seq, c)

\* case DCM_CLASS_SEQUENCE once dcm_sequence_create returned S
clone_sequence_into(S, from_seq, c, u) ==
    clone_sequence_items(clone_items(S.H, from_seq, S.ret, 0, u), S.ret, c)

\* case DCM_CLASS_SEQUENCE once dcm_element_get_value_sequence returned g
clone_sequence_from(g, c, u) ==
    IF ~g.ok
    THEN [H |-> dcm_element_destroy(g.H, c), ok |-> FALSE, err |-> g.err]
    ELSE clone_sequence_into(dcm_sequence_create(g.H), g.ret, c, u)

\* case DCM_CLASS_SEQUENCE of dcm_element_clone
clone_sequence(H, e, c, u) ==
    clone_sequence_from(dcm_element_get_value_sequence(H, e), c, u)

\* the validation that ends dcm_element_clone, v the verdict of
\* dcm_element_validate
clone_validated(v, H, c) ==
    IF ~v.ok THEN Fail(dcm_element_destroy(SetEl(H, c, v.el), c), "INVALID")
    ELSE Ok(SetEl(H, c, v.el), c)

clone_validate(H, c) == clone_validated(dcm_element_validate(H, H.el[c]), H, c)

\* dcm_element_clone once the switch over the VR class returned B
clone_end(B, c) ==
    IF ~B.ok THEN Fail(B.H, B.err) ELSE clone_validate(B.H, c)

\* dcm_element_clone once dcm_element_create returned C
clone_value(C, el, e, u) ==
    IF C.ret = NULL THEN C
    ELSE clone_end(
             CASE dcm_dict_vr_class(el.vr) = "SEQUENCE" ->
                      clone_sequence(C.H, e, C.ret, u)
               [] dcm_dict_vr_class(el.vr) \in {"STRING_MULTI", "STRING_SINGLE"} ->
                      clone_string(C.H, el, C.ret, u)
               [] dcm_dict_vr_class(el.vr) = "BINARY" -> clone_binary(C.H, el, C.ret, u)
               [] dcm_dict_vr_class(el.vr) = "NUMERIC" -> clone_numeric(C.H, el, C.ret, u)
               [] OTHER -> [H |-> C.H, ok |-> TRUE, err |-> "NONE"],
             C.ret)

\* dcm_element_clone
dcm_element_clone(H, e, u) ==
    clone_value(dcm_element_create(H, H.el[e].tag, H.el[e].length), H.el[e], e, u)

\* the loop of dcm_dataset_clone over the elements es of the source
clone_elements(H, es, cd, u) ==
    IF es = <<>> THEN Ok(H, cd)
    ELSE clone_insert(dcm_element_clone(H, Head(es), u), Tail(es), cd, u)

\* the body of the loop once dcm_element_clone has returned ce
clone_insert(ce, es, cd, u) ==
    IF ce.ret = NULL THEN Fail(dcm_dataset_destroy(ce.H, cd), ce.err)
    ELSE clone_inserted(dcm_dataset_insert(ce.H, cd, ce.ret), es, cd, u)

\* the body of the loop once dcm_dataset_insert has returned r
clone_inserted(r, es, cd, u) ==
    IF ~r.ok THEN Fail(dcm_dataset_destroy(r.H, cd), r.err)
    ELSE clone_elements(r.H, es, cd, u)

\* dcm_dataset_clone once dcm_dataset_create returned D
clone_into(D, es, u) == clone_elements(D.H, es, D.ret, u)

\* dcm_dataset_clone
dcm_dataset_clone(H, d, u) == clone_into(dcm_dataset_create(H), H.ds[d].elements, u)

\* dcm_dataset_get_clone
dcm_dataset_get_clone(H, d, tag, u) ==
    IF HASH_FIND_INT(H, d, tag) = NULL THEN Fail(H, "INVALID")
    ELSE dcm_element_clone(H, HASH_FIND_INT(H, d, tag), u)

----------------------------------------------------------------------------
(* Frames.  frame[f] is a struct _DcmFrame (lines 97-111); data,           *)
(* photometric_interpretation and transfer_syntax_uid are buffer ids.      *)
(* uint16_t is modelled at ShortBits bits.  mem is the number of           *)
(* allocations that succeed before one fails.                              *)

U16 == Pow2(ShortBits)

\* DCM_NEW(error, DcmFrame): a zeroed struct _DcmFrame
NewFrame ==
    [number |-> 0, data |-> NULL, length |-> 0, rows |-> 0, columns |-> 0,
     samples_per_pixel |-> 0, bits_allocated |-> 0, bits_stored |-> 0,
     high_bit |-> 0, pixel_representation |-> 0, planar_configuration |-> 0,
     photometric_interpretation |-> NULL, transfer_syntax_uid |-> NULL]

\* dcm_strdup(error, str): a new buffer with the characters of str, or NULL
dcm_strdup(H, str, mem) ==
    IF mem > 0 THEN AllocBuf(H, "str", str) ELSE [H |-> H, b |-> NULL]

\* dcm_frame_destroy
dcm_frame_destroy(H, f) ==
    IF f = NULL THEN H
    ELSE
    LET fr == H.fr[f]
        H1 == IF fr.data # NULL THEN FreeBuf(H, fr.data) ELSE H
        H2 == IF fr.photometric_interpretation # NULL
              THEN FreeBuf(H1, fr.photometric_interpretation) ELSE H1
        H3 == IF fr.transfer_syntax_uid # NULL
              THEN FreeBuf(H2, fr.transfer_syntax_uid) ELSE H2
    IN  [H3 EXCEPT !.fr = Without(H3.fr, f)]

\* frame->high_bit = bits_stored - 1, stored in a uint16_t
high_bit_of(bits_stored) == (bits_stored - 1) % U16

\* the tests of the arguments that open dcm_frame_create, in their order
frame_check(a) ==
    /\ ~(a.data = NULL \/ a.length = 0)
    /\ ~(a.bits_allocated # 1 /\ a.bits_allocated % 8 # 0)
    /\ ~(a.bits_stored # 1 /\ a.bits_stored % 8 # 0)
    /\ ~(a.pixel_representation # 0 /\ a.pixel_representation # 1)
    /\ ~(a.planar_configuration # 0 /\ a.planar_configuration # 1)

\* dcm_frame_create from frame->photometric_interpretation = dcm_strdup(...)
\* on: f is the frame with its numbers set
frame_create_strings(H, f, a, mem) ==
    LET P  == dcm_strdup(H, a.photometric_interpretation, mem)
        H1 == [P.H EXCEPT !.fr = [P.H.fr EXCEPT
                  ![f].photometric_interpretation = P.b]]
        T  == dcm_strdup(H1, a.transfer_syntax_uid, mem - 1)
        H2 == [T.H EXCEPT !.fr = [T.H.fr EXCEPT ![f].transfer_syntax_uid = T.b]]
    IN  IF P.b = NULL THEN Fail(dcm_frame_destroy(H1, f), "NOMEM")
        ELSE IF T.b = NULL THEN Fail(dcm_frame_destroy(H2, f), "NOMEM")
        ELSE Ok(H2, f)

\* dcm_frame_create: a is the record of its arguments, a.data a buffer id
dcm_frame_create(H, a, mem) ==
    IF ~frame_check(a) THEN Fail(H, "INVALID")
    ELSE IF mem = 0 THEN Fail(H, "NOMEM")
    ELSE
    LET f == FreshId(H.fr, FrameIds)
        fr == [NewFrame EXCEPT
                 !.number = a.number, !.data = a.data, !.length = a.length,
                 !.rows = a.rows, !.columns = a.columns,
                 !.samples_per_pixel = a.samples_per_pixel,
                 !.bits_allocated = a.bits_allocated,
                 !.bits_stored = a.bits_stored,
                 !.high_bit = high_bit_of(a.bits_stored),
                 !.pixel_representation = a.pixel_representation,
                 !.planar_configuration = a.planar_configuration]
    IN  frame_create_strings([H EXCEPT !.fr = (f :> fr) @@ H.fr], f, a, mem - 1)

\* the accessors
dcm_frame_get_number(H, f) == H.fr[f].number

dcm_frame_get_length(H, f) == H.fr[f].length

dcm_frame_get_rows(H, f) == H.fr[f].rows

dcm_frame_get_columns(H, f) == H.fr[f].columns

dcm_frame_get_samples_per_pixel(H, f) == H.fr[f].samples_per_pixel

dcm_frame_get_bits_allocated(H, f) == H.fr[f].bits_allocated

dcm_frame_get_bits_stored(H, f) == H.fr[f].bits_stored

dcm_frame_get_high_bit(H, f) == H.fr[f].high_bit

dcm_frame_get_pixel_representation(H, f) == H.fr[f].pixel_representation

dcm_frame_get_planar_configuration(H, f) == H.fr[f].planar_configuration

dcm_frame_get_photometric_interpretation(H, f) ==
    H.fr[f].photometric_interpretation

dcm_frame_get_transfer_syntax_uid(H, f) == H.fr[f].transfer_syntax_uid

dcm_frame_get_value(H, f) == H.fr[f].data

----------------------------------------------------------------------------
(* The Basic Offset Table.  bot[b] is a struct _DcmBOT (lines 114-118);    *)
(* offsets is the id of the buffer with the ssize_t array.  ssize_t is     *)
(* modelled at SsizeBits bits, two's complement.                           *)

SsizeMax == Pow2(SsizeBits - 1) - 1

Ssize == (-SsizeMax - 1)..SsizeMax

\* free(ptr): nothing is done for a null pointer
free(H, ptr) == IF ptr = NULL THEN H ELSE FreeBuf(H, ptr)

\* dcm_bot_create
dcm_bot_create(H, offsets, num_frames, first_frame_offset, mem) ==
    IF num_frames = 0 THEN Fail(free(H, offsets), "INVALID")
    ELSE IF offsets = NULL THEN Fail(H, "INVALID")
    ELSE IF mem = 0 THEN Fail(free(H, offsets), "NOMEM")
    ELSE
    LET b == FreshId(H.bt, BotIds)
    IN  Ok([H EXCEPT !.bt = (b :> [num_frames |-> num_frames, offsets |-> offsets,
                                   first_frame_offset |-> first_frame_offset])
                             @@ H.bt], b)

\* dcm_bot_get_num_frames
dcm_bot_get_num_frames(H, b) == H.bt[b].num_frames

\* the sum of two ssize_t: the values it may have.  A sum outside ssize_t
\* is a signed overflow, undefined: any value may come out.
ssize_add(x, y) == IF x + y \in Ssize THEN {x + y} ELSE Ssize

\* bot->offsets[index]: the values the read may find.  A read outside the
\* array is undefined.
offsets_at(H, b, index) ==
    LET array == H.buf[H.bt[b].offsets].d
    IN  IF index < Len(array) THEN {array[index + 1]} ELSE Ssize

\* dcm_bot_get_frame_offset: the results it may have.  ndebug says whether
\* the build compiles the asserts out; a failed assert ends the program.
\* bot->num_frames + 1 is a uint32_t sum.
dcm_bot_get_frame_offset(H, b, number, ndebug) ==
    IF ~ndebug /\ ~(number > 0 /\ number < (H.bt[b].num_frames + 1) % U32)
    THEN {[ok |-> FALSE, err |-> "ABORT", ret |-> 0]}
    ELSE LET index == (number - 1) % U32
         IN  {[ok |-> TRUE, err |-> "NONE", ret |-> r] :
                 r \in UNION {ssize_add(o, H.bt[b].first_frame_offset) :
                                 o \in offsets_at(H, b, index)}}

\* dcm_bot_destroy
dcm_bot_destroy(H, b) ==
    IF b = NULL THEN H
    ELSE LET H1 == IF H.bt[b].offsets # NULL THEN FreeBuf(H, H.bt[b].offsets) ELSE H
         IN  [H1 EXCEPT !.bt = Without(H1.bt, b)]

----------------------------------------------------------------------------
(* dcm_is_encapsulated_transfer_syntax.  A string is the sequence of its   *)
(* characters.                                                             *)

\* the code of a character in the execution character set (ASCII)
Code(c) ==
    CASE c = "." -> 46
      [] c = "0" -> 48 [] c = "1" -> 49 [] c = "2" -> 50 [] c = "3" -> 51
      [] c = "4" -> 52 [] c = "5" -> 53 [] c = "6" -> 54 [] c = "7" -> 55
      [] c = "8" -> 56 [] c = "9" -> 57

\* strcmp: the strings are compared character by character, up to the
\* first difference or the end of both; the end of a string is the
\* character 0
RECURSIVE strcmp(_, _)
strcmp(s1, s2) ==
    LET c1 == IF s1 = <<>> THEN 0 ELSE Code(Head(s1))
        c2 == IF s2 = <<>> THEN 0 ELSE Code(Head(s2))
    IN  IF c1 # c2 THEN c1 - c2
        ELSE IF c1 = 0 THEN 0
        ELSE strcmp(Tail(s1), Tail(s2))

\* "1.2.840.10008.1.2", Implicit VR Little Endian
ImplicitVRLittleEndian ==
    <<"1", ".", "2", ".", "8", "4", "0", ".", "1", "0", "0", "0", "8", ".",
      "1", ".", "2">>

\* "1.2.840.10008.1.2.1", Explicit VR Little Endian
ExplicitVRLittleEndian == ImplicitVRLittleEndian \o <<".", "1">>

\* "1.2.840.10008.1.2.1.99", Deflated Explicit VR Little Endian
DeflatedExplicitVRLittleEndian == ExplicitVRLittleEndian \o <<".", "9", "9">>

\* "1.2.840.10008.1.2.2", Explicit VR Big Endian
ExplicitVRBigEndian == ImplicitVRLittleEndian \o <<".", "2">>

\* (C30) the test that does not know the Big Endian syntax
dcm_is_encapsulated_transfer_syntax_three(transfer_syntax_uid) ==
    /\ strcmp(transfer_syntax_uid, ImplicitVRLittleEndian) # 0
    /\ strcmp(transfer_syntax_uid, ExplicitVRLittleEndian) # 0
    /\ strcmp(transfer_syntax_uid, DeflatedExplicitVRLittleEndian) # 0

\* dcm_is_encapsulated_transfer_syntax
dcm_is_encapsulated_transfer_syntax(transfer_syntax_uid) ==
    /\ strcmp(transfer_syntax_uid, ImplicitVRLittleEndian) # 0
    /\ strcmp(transfer_syntax_uid, ExplicitVRLittleEndian) # 0
    /\ strcmp(transfer_syntax_uid, DeflatedExplicitVRLittleEndian) # 0
    /\ strcmp(transfer_syntax_uid, ExplicitVRBigEndian) # 0

----------------------------------------------------------------------------
(* Ownership, as the caller sees it *)

\* the objects an element, a data set or a sequence owns, itself included
RECURSIVE ElTree(_, _)
RECURSIVE DsTree(_, _)
RECURSIVE SqTree(_, _)

NoTree == [el |-> {}, ds |-> {}, sq |-> {}]

ElTree(H, e) ==
    LET sp == H.el[e].sequence_pointer
        t == IF sp # NULL /\ sp \in DOMAIN H.sq THEN SqTree(H, sp) ELSE NoTree
    IN  [t EXCEPT !.el = @ \cup {e}]

DsTree(H, d) ==
    LET es == Range(H.ds[d].elements) \cap DOMAIN H.el
    IN  [el |-> UNION {ElTree(H, e).el : e \in es},
         ds |-> {d} \cup UNION {ElTree(H, e).ds : e \in es},
         sq |-> UNION {ElTree(H, e).sq : e \in es}]

SqTree(H, s) ==
    LET ds == Range(H.sq[s].items) \cap DOMAIN H.ds
    IN  [el |-> UNION {DsTree(H, d).el : d \in ds},
         ds |-> UNION {DsTree(H, d).ds : d \in ds},
         sq |-> {s} \cup UNION {DsTree(H, d).sq : d \in ds}]

\* an element no data set holds, a data set no sequence holds, a sequence
\* no element holds: the objects the caller owns
RootElement(H, e) ==
    e \in DOMAIN H.el /\ \A d \in DOMAIN H.ds : e \notin Range(H.ds[d].elements)

RootDataSet(H, d) ==
    d \in DOMAIN H.ds /\ \A s \in DOMAIN H.sq : d \notin Range(H.sq[s].items)

RootSequence(H, s) ==
    s \in DOMAIN H.sq /\ \A e \in DOMAIN H.el : H.el[e].sequence_pointer # s

\* a buffer no element has taken over: the caller's to free
CallerBuffer(H, b) ==
    /\ b \in DOMAIN H.buf
    /\ \A e \in DOMAIN H.el :
          /\ H.el[e].value_pointer # b
          /\ H.el[e].value_pointer_array # b
          /\ H.el[e].assigned => H.el[e].value.x # b \/ H.el[e].value.k \in {"num", "sq", "zero"}
    /\ \A f \in DOMAIN H.fr :
          /\ H.fr[f].data # b
          /\ H.fr[f].photometric_interpretation # b
          /\ H.fr[f].transfer_syntax_uid # b
    /\ \A t \in DOMAIN H.bt : H.bt[t].offsets # b

\* the heap has room for a copy of everything e owns
CanClone(H, e) ==
    LET t == ElTree(H, e)
    IN  /\ HasFree(H.el, ElemIds, Cardinality(t.el))
        /\ HasFree(H.ds, DsIds, Cardinality(t.ds))
        /\ HasFree(H.sq, SeqIds, Cardinality(t.sq))
        /\ HasFree(H.buf, BufIds, Cardinality(t.el))

----------------------------------------------------------------------------
(* The state machine: one action per API call.  `last` records the call:   *)
(* its name, the handles it was given, whether it succeeded, the code of   *)
(* the error it set, the pointer or number it returned, the value a getter *)
(* wrote, and whether the buffer or sequence passed in was left to the     *)
(* caller (neither taken over nor released by the call).                   *)

NoCall ==
    [op |-> "none", e |-> NULL, d |-> NULL, s |-> NULL, ok |-> TRUE,
     err |-> "NONE", ret |-> NULL, val |-> <<>>, arg |-> <<>>, left |-> FALSE]

Call(op, e, d, s, ok, err, ret, val) ==
    [op |-> op, e |-> e, d |-> d, s |-> s, ok |-> ok, err |-> err,
     ret |-> ret, val |-> val, arg |-> <<>>, left |-> FALSE]

SetHeap(H) ==
    /\ element' = H.el
    /\ dataset' = H.ds
    /\ sequence' = H.sq
    /\ buffer' = H.buf
    /\ frame' = H.fr
    /\ bot' = H.bt

\* the heap of r becomes the state and the call is recorded
Return(op, e, d, s, r) ==
    /\ SetHeap(r.H)
    /\ last' = Call(op, e, d, s, r.ok, r.err, r.ret, <<>>)

\* the same for a call whose input arg is recorded with it
ReturnArg(op, e, d, s, arg, r) ==
    /\ SetHeap(r.H)
    /\ last' = [Call(op, e, d, s, r.ok, r.err, r.ret, <<>>) EXCEPT !.arg = arg]

\* a buffer b that no element owns when the call returns is still the
\* caller's
LeftToCaller(H, b) ==
    /\ b \in DOMAIN H.buf
    /\ \A e \in DOMAIN H.el :
          H.el[e].value_pointer # b /\ H.el[e].value_pointer_array # b

\* a setter that was given the buffer b returns r: the call is recorded, and
\* the caller frees b when the call left it to the caller and no assigned
\* element points to it (a borrowed buffer stays while its element reads it)
ReturnBuf(op, e, b, arg, r) ==
    /\ SetHeap(IF CallerBuffer(r.H, b) THEN FreeBuf(r.H, b) ELSE r.H)
    /\ last' = [Call(op, e, NULL, NULL, r.ok, r.err, r.ret, <<>>)
                   EXCEPT !.arg = arg, !.left = LeftToCaller(r.H, b)]

\* a getter: the heap is as it was
Got(op, e, d, s, g) ==
    /\ UNCHANGED <<element, dataset, sequence, buffer, frame, bot>>
    /\ last' = Call(op, e, d, s, g.ok, g.err, NULL, g.val)

\* a getter that takes an index
GotAt(op, e, index, g) ==
    /\ UNCHANGED <<element, dataset, sequence, buffer, frame, bot>>
    /\ last' = [Call(op, e, NULL, NULL, g.ok, g.err, NULL, g.val)
                   EXCEPT !.arg = <<index>>]

Init ==
    /\ element = <<>>
    /\ dataset = <<>>
    /\ sequence = <<>>
    /\ buffer = <<>>
    /\ frame = <<>>
    /\ bot = <<>>
    /\ last = NoCall

CallElementCreate(tag, length) ==
    /\ HasFree(element, ElemIds, 1)
    /\ ReturnArg("element_create", NULL, NULL, NULL, <<tag, length>>,
                 dcm_element_create(Heap, tag, length))

CallElementDestroy(e) ==
    /\ RootElement(Heap, e)
    /\ SetHeap(dcm_element_destroy(Heap, e))
    /\ last' = Call("element_destroy", e, NULL, NULL, TRUE, "NONE", NULL, <<>>)

\* the caller's string is malloc'ed and given to the element (steal)
CallSetValueString(e, str) ==
    /\ e \in DOMAIN element
    /\ HasFree(buffer, BufIds, 2)
    /\ LET A == AllocBuf(Heap, "str", str)
       IN  ReturnBuf("set_value_string", e, A.b, str,
                     dcm_element_set_value_string(A.H, e, A.b))

\* the caller's string stays the caller's
CallSetValueStringStatic(e, str) ==
    /\ e \in DOMAIN element
    /\ HasFree(buffer, BufIds, 2)
    /\ LET A == AllocBuf(Heap, "str", str)
       IN  ReturnBuf("set_value_string_static", e, A.b, str,
                     dcm_element_set_value_string_static(A.H, e, A.b))

CallSetValueStringMulti(e, values, steal) ==
    /\ e \in DOMAIN element
    /\ HasFree(buffer, BufIds, 1)
    /\ LET A == AllocBuf(Heap, "strs", values)
       IN  ReturnBuf("set_value_string_multi", e, A.b, values,
                     dcm_element_set_value_string_multi(A.H, e, A.b, Len(values), steal))

CallSetValueInteger(e, value) ==
    /\ e \in DOMAIN element
    /\ ReturnArg("set_value_integer", e, NULL, NULL, <<value>>,
                 dcm_element_set_value_integer(Heap, e, value))

CallSetValueDouble(e, value) ==
    /\ e \in DOMAIN element
    /\ ReturnArg("set_value_double", e, NULL, NULL, <<value>>,
                 dcm_element_set_value_double(Heap, e, value))

CallSetValueNumericMulti(e, values, steal) ==
    /\ e \in DOMAIN element
    /\ HasFree(buffer, BufIds, 1)
    /\ LET A == AllocBuf(Heap, "nums", values)
       IN  ReturnBuf("set_value_numeric_multi", e, A.b, values,
                     dcm_element_set_value_numeric_multi(A.H, e, A.b, Len(values), steal))

CallSetValueBinary(e, bytes, steal) ==
    /\ e \in DOMAIN element
    /\ HasFree(buffer, BufIds, 1)
    /\ LET A == AllocBuf(Heap, "bytes", bytes)
       IN  ReturnBuf("set_value_binary", e, A.b, bytes,
                     dcm_element_set_value_binary(A.H, e, A.b, Len(bytes), steal))

CallSetValueSequence(e, s) ==
    /\ RootElement(Heap, e)
    /\ RootSequence(Heap, s)
    /\ Return("set_value_sequence", e, NULL, s,
              dcm_element_set_value_sequence(Heap, e, s))

\* the caller creates an empty sequence for the element; a sequence the
\* element did not take is left to the caller, who destroys it
CallSetValueSequenceNew(e) ==
    /\ RootElement(Heap, e)
    /\ HasFree(sequence, SeqIds, 1)
    /\ LET S == dcm_sequence_create(Heap)
           r == dcm_element_set_value_sequence(S.H, e, S.ret)
           mine == RootSequence(r.H, S.ret)
       IN  /\ SetHeap(IF mine THEN dcm_sequence_destroy(r.H, S.ret) ELSE r.H)
           /\ last' = [Call("set_value_sequence", e, NULL, S.ret, r.ok, r.err,
                             r.ret, <<>>) EXCEPT !.left = mine]

CallGetValueString(e, index) ==
    /\ e \in DOMAIN element
    /\ GotAt("get_value_string", e, index,
             dcm_element_get_value_string(Heap, element[e], index))

CallGetValueInteger(e, index) ==
    /\ e \in DOMAIN element
    /\ GotAt("get_value_integer", e, index,
             dcm_element_get_value_integer(Heap, element[e], index))

CallGetValueDouble(e, index) ==
    /\ e \in DOMAIN element
    /\ GotAt("get_value_double", e, index,
             dcm_element_get_value_double(Heap, element[e], index))

CallGetValueBinary(e) ==
    /\ e \in DOMAIN element
    /\ Got("get_value_binary", e, NULL, NULL,
           dcm_element_get_value_binary(Heap, element[e]))

CallGetValueSequence(e) ==
    /\ e \in DOMAIN element
    /\ Return("get_value_sequence", e, NULL, NULL,
              dcm_element_get_value_sequence(Heap, e))

CallElementClone(e, u) ==
    /\ e \in DOMAIN element
    /\ CanClone(Heap, e)
    /\ Return("element_clone", e, NULL, NULL, dcm_element_clone(Heap, e, u))

\* free() of a buffer the caller still owns
CallerFree(b) ==
    /\ CallerBuffer(Heap, b)
    /\ SetHeap(FreeBuf(Heap, b))
    /\ last' = Call("free", NULL, NULL, NULL, TRUE, "NONE", NULL, <<>>)

CallDatasetCreate ==
    /\ HasFree(dataset, DsIds, 1)
    /\ Return("dataset_create", NULL, NULL, NULL, dcm_dataset_create(Heap))

\* the caller gives an element it owns to a data set that is not its own
CallDatasetInsert(d, e) ==
    /\ d \in DOMAIN dataset
    /\ RootElement(Heap, e)
    /\ d \notin ElTree(Heap, e).ds
    /\ Return("dataset_insert", e, d, NULL, dcm_dataset_insert(Heap, d, e))

CallDatasetRemove(d, tag) ==
    /\ d \in DOMAIN dataset
    /\ ReturnArg("dataset_remove", NULL, d, NULL, <<tag>>,
                 dcm_dataset_remove(Heap, d, tag))

CallDatasetGet(d, tag) ==
    /\ d \in DOMAIN dataset
    /\ ReturnArg("dataset_get", NULL, d, NULL, <<tag>>, dcm_dataset_get(Heap, d, tag))

CallDatasetContains(d, tag) ==
    /\ d \in DOMAIN dataset
    /\ ReturnArg("dataset_contains", NULL, d, NULL, <<tag>>,
                 Ok(Heap, dcm_dataset_contains(Heap, d, tag)))

CallDatasetCount(d) ==
    /\ d \in DOMAIN dataset
    /\ Return("dataset_count", NULL, d, NULL, Ok(Heap, dcm_dataset_count(Heap, d)))

\* fn records the elements it is called with
CallDatasetForeach(d) ==
    /\ d \in DOMAIN dataset
    /\ UNCHANGED <<element, dataset, sequence, buffer, frame, bot>>
    /\ last' = Call("dataset_foreach", NULL, d, NULL, TRUE, "NONE", NULL,
                    dcm_dataset_foreach(Heap, d))

\* the caller passes an array of n zeroes
CallDatasetCopyTags(d, n) ==
    /\ d \in DOMAIN dataset
    /\ \E out \in dcm_dataset_copy_tags(Heap, d, [i \in 1..n |-> 0], n) :
          /\ UNCHANGED <<element, dataset, sequence, buffer, frame, bot>>
          /\ last' = [Call("dataset_copy_tags", NULL, d, NULL, TRUE, "NONE", NULL, out)
                         EXCEPT !.arg = <<n>>]

CallDatasetLock(d) ==
    /\ d \in DOMAIN dataset
    /\ Return("dataset_lock", NULL, d, NULL, Ok(dcm_dataset_lock(Heap, d), NULL))

CallDatasetIsLocked(d) ==
    /\ d \in DOMAIN dataset
    /\ Return("dataset_is_locked", NULL, d, NULL,
              Ok(Heap, IF dcm_dataset_is_locked(Heap, d) THEN 1 ELSE 0))

CallDatasetDestroy(d) ==
    /\ RootDataSet(Heap, d)
    /\ SetHeap(dcm_dataset_destroy(Heap, d))
    /\ last' = Call("dataset_destroy", NULL, d, NULL, TRUE, "NONE", NULL, <<>>)

CallSequenceCreate ==
    /\ HasFree(sequence, SeqIds, 1)
    /\ Return("sequence_create", NULL, NULL, NULL, dcm_sequence_create(Heap))

\* the caller gives a data set it owns to a sequence that is not its own
CallSequenceAppend(s, d) ==
    /\ s \in DOMAIN sequence
    /\ RootDataSet(Heap, d)
    /\ s \notin DsTree(Heap, d).sq
    /\ Return("sequence_append", NULL, d, s, dcm_sequence_append(Heap, s, d))

CallSequenceGet(s, index) ==
    /\ s \in DOMAIN sequence
    /\ ReturnArg("sequence_get", NULL, NULL, s, <<index>>,
                 dcm_sequence_get(Heap, s, index))

\* fn records the items it is called with
CallSequenceForeach(s) ==
    /\ s \in DOMAIN sequence
    /\ SetHeap(dcm_sequence_foreach(Heap, s).H)
    /\ last' = Call("sequence_foreach", NULL, NULL, s, TRUE, "NONE", NULL,
                    dcm_sequence_foreach(Heap, s).val)

CallSequenceRemove(s, index) ==
    /\ s \in DOMAIN sequence
    /\ ReturnArg("sequence_remove", NULL, NULL, s, <<index>>,
                 dcm_sequence_remove(Heap, s, index))

CallSequenceCount(s) ==
    /\ s \in DOMAIN sequence
    /\ Return("sequence_count", NULL, NULL, s, Ok(Heap, dcm_sequence_count(Heap, s)))

CallSequenceLock(s) ==
    /\ s \in DOMAIN sequence
    /\ Return("sequence_lock", NULL, NULL, s, Ok(dcm_sequence_lock(Heap, s), NULL))

CallSequenceDestroy(s) ==
    /\ RootSequence(Heap, s)
    /\ SetHeap(dcm_sequence_destroy(Heap, s))
    /\ last' = Call("sequence_destroy", NULL, NULL, s, TRUE, "NONE", NULL, <<>>)

\* the caller allocates the pixel data and calls dcm_frame_create with it;
\* a holds the other arguments
CallFrameCreate(bytes, a, mem) ==
    /\ HasFree(frame, FrameIds, 1)
    /\ HasFree(buffer, BufIds, 3)
    /\ LET A == AllocBuf(Heap, "bytes", bytes)
           args == [a EXCEPT !.data = A.b]
       IN  ReturnArg("frame_create", NULL, NULL, NULL, <<args, mem>>,
                     dcm_frame_create(A.H, args, mem))

\* dcm_frame_create with data == NULL
CallFrameCreateNull(a, mem) ==
    /\ HasFree(frame, FrameIds, 1)
    /\ HasFree(buffer, BufIds, 3)
    /\ ReturnArg("frame_create", NULL, NULL, NULL, <<[a EXCEPT !.data = NULL], mem>>,
                 dcm_frame_create(Heap, [a EXCEPT !.data = NULL], mem))

CallFrameDestroy(f) ==
    /\ f \in DOMAIN frame
    /\ ReturnArg("frame_destroy", NULL, NULL, NULL, <<f>>,
                 Ok(dcm_frame_destroy(Heap, f), NULL))

\* the accessor named get is called
CallFrameGet(f, get) ==
    /\ f \in DOMAIN frame
    /\ ReturnArg("frame_get", NULL, NULL, NULL, <<f, get>>,
          Ok(Heap,
             CASE get = "number" -> dcm_frame_get_number(Heap, f)
               [] get = "length" -> dcm_frame_get_length(Heap, f)
               [] get = "rows" -> dcm_frame_get_rows(Heap, f)
               [] get = "columns" -> dcm_frame_get_columns(Heap, f)
               [] get = "samples_per_pixel" ->
                      dcm_frame_get_samples_per_pixel(Heap, f)
               [] get = "bits_allocated" -> dcm_frame_get_bits_allocated(Heap, f)
               [] get = "bits_stored" -> dcm_frame_get_bits_stored(Heap, f)
               [] get = "high_bit" -> dcm_frame_get_high_bit(Heap, f)
               [] get = "pixel_representation" ->
                      dcm_frame_get_pixel_representation(Heap, f)
               [] get = "planar_configuration" ->
                      dcm_frame_get_planar_configuration(Heap, f)
               [] get = "photometric_interpretation" ->
                      dcm_frame_get_photometric_interpretation(Heap, f)
               [] get = "transfer_syntax_uid" ->
                      dcm_frame_get_transfer_syntax_uid(Heap, f)
               [] get = "value" -> dcm_frame_get_value(Heap, f)))

\* dcm_bot_create with offsets == NULL
CallBotCreateNull(num_frames, first_frame_offset, mem) ==
    /\ HasFree(bot, BotIds, 1)
    /\ HasFree(buffer, BufIds, 3)
    /\ ReturnArg("bot_create", NULL, NULL, NULL,
                 <<NULL, num_frames, first_frame_offset, mem>>,
                 dcm_bot_create(Heap, NULL, num_frames, first_frame_offset, mem))

\* the caller allocates the array of offsets and calls dcm_bot_create with
\* it
CallBotCreate(array, num_frames, first_frame_offset, mem) ==
    /\ HasFree(bot, BotIds, 1)
    /\ HasFree(buffer, BufIds, 3)
    /\ LET A == AllocBuf(Heap, "offsets", array)
       IN  ReturnArg("bot_create", NULL, NULL, NULL,
                     <<A.b, num_frames, first_frame_offset, mem>>,
                     dcm_bot_create(A.H, A.b, num_frames, first_frame_offset, mem))

CallBotGetNumFrames(b) ==
    /\ b \in DOMAIN bot
    /\ ReturnArg("bot_get_num_frames", NULL, NULL, NULL, <<b>>,
                 Ok(Heap, dcm_bot_get_num_frames(Heap, b)))

CallBotGetFrameOffset(b, number, ndebug) ==
    /\ b \in DOMAIN bot
    /\ \E r \in dcm_bot_get_frame_offset(Heap, b, number, ndebug) :
          ReturnArg("bot_get_frame_offset", NULL, NULL, NULL, <<b, number, ndebug>>,
                    [H |-> Heap, ok |-> r.ok, err |-> r.err, ret |-> r.ret])

CallBotDestroy(b) ==
    /\ b \in DOMAIN bot
    /\ ReturnArg("bot_destroy", NULL, NULL, NULL, <<b>>,
                 Ok(dcm_bot_destroy(Heap, b), NULL))

CallIsEncapsulatedTransferSyntax(transfer_syntax_uid) ==
    ReturnArg("is_encapsulated_transfer_syntax", NULL, NULL, NULL,
              <<transfer_syntax_uid>>,
              Ok(Heap, dcm_is_encapsulated_transfer_syntax(transfer_syntax_uid)))

----------------------------------------------------------------------------
(* Inputs *)

\* the uint32_t values passed as the provisional length: none, odd and even
\* ones, the sizes of one and of two scalars, and UINT32_MAX
Lengths == {0, 1, 4, 8, U32 - 1}

\* the int64_t values passed to set_value_integer
Int64s == {-1, 1, 32768, 65537}

\* the doubles passed to set_value_double
Doubles == {0, 1}

\* most strings of a string array passed to set_value_string_multi
MaxStrVm == 2

\* string arrays of short and of longest words
StringArrays == SeqsUpTo({<<"a">>, [i \in 1..MaxStrLen |-> "a"]}, MaxStrVm)

\* numeric arrays of vm scalars
NumericArrays == {[i \in 1..n |-> i] : n \in 0..MaxVm}

\* byte buffers
ByteBuffers == SeqsUpTo({1}, MaxBinLen)

Indexes == 0..MaxVm

\* the caller holds no buffer that it has yet to free
CallerIdle == \A b \in DOMAIN buffer : ~CallerBuffer(Heap, b)

----------------------------------------------------------------------------
(* ElemSpec: one element and its clone, with every kind of value and the   *)
(* provisional lengths that matter.                                        *)

\* the element is the only one: it has no clone yet
Alone == Cardinality(DOMAIN element) = 1

ElemNext ==
    \/ \E tag \in Tags, length \in Lengths :
          DOMAIN element = {} /\ CallerIdle /\ CallElementCreate(tag, length)
    \/ \E e \in ElemIds : CallElementDestroy(e)
    \/ \E e \in ElemIds, str \in Strings : Alone /\ CallSetValueString(e, str)
    \/ \E e \in ElemIds, str \in Strings : Alone /\ CallSetValueStringStatic(e, str)
    \/ \E e \in ElemIds, values \in StringArrays, steal \in BOOLEAN :
          Alone /\ CallSetValueStringMulti(e, values, steal)
    \/ \E e \in ElemIds, value \in Int64s   : Alone /\ CallSetValueInteger(e, value)
    \/ \E e \in ElemIds, value \in Doubles : Alone /\ CallSetValueDouble(e, value)
    \/ \E e \in ElemIds, values \in NumericArrays, steal \in BOOLEAN :
          Alone /\ CallSetValueNumericMulti(e, values, steal)
    \/ \E e \in ElemIds, bytes \in ByteBuffers, steal \in BOOLEAN :
          Alone /\ CallSetValueBinary(e, bytes, steal)
    \/ \E e \in ElemIds : Alone /\ CallSetValueSequenceNew(e)
    \/ \E e \in ElemIds, index \in Indexes : CallGetValueString(e, index)
    \/ \E e \in ElemIds, index \in Indexes : CallGetValueInteger(e, index)
    \/ \E e \in ElemIds, index \in Indexes : CallGetValueDouble(e, index)
    \/ \E e \in ElemIds : CallGetValueBinary(e)
    \/ \E e \in ElemIds : CallGetValueSequence(e)
    \/ \E e \in ElemIds, u \in UChoices :
          Alone /\ CallElementClone(e, u)
    \/ \E b \in BufIds : CallerFree(b)

ElemSpec == Init /\ [][ElemNext]_vars

----------------------------------------------------------------------------
(* Spec: data sets and the elements they hold.  The elements are US and   *)
(* SS elements with no provisional length, unassigned or holding one       *)
(* integer.                                                                *)

SpecTags == {1, 2}

Next ==
    \/ \E tag \in SpecTags : CallElementCreate(tag, 0)
    \/ \E e \in ElemIds : CallElementDestroy(e)
    \/ \E e \in ElemIds : CallSetValueInteger(e, 1)
    \/ CallDatasetCreate
    \/ \E d \in DsIds, e \in ElemIds : CallDatasetInsert(d, e)
    \/ \E d \in DsIds, tag \in SpecTags : CallDatasetRemove(d, tag)
    \/ \E d \in DsIds, tag \in SpecTags : CallDatasetGet(d, tag)
    \/ \E d \in DsIds, tag \in SpecTags : CallDatasetContains(d, tag)
    \/ \E d \in DsIds : CallDatasetCount(d)
    \/ \E d \in DsIds : CallDatasetLock(d)
    \/ \E d \in DsIds : CallDatasetIsLocked(d)
    \/ \E d \in DsIds : CallDatasetDestroy(d)

Spec == Init /\ [][Next]_vars

----------------------------------------------------------------------------
(* TagSpec: one data set and its elements, of low and of high tags, in any *)
(* order of insertion.                                                     *)

TagSpecTags == {1, 6} \cup HighTags

TagNext ==
    \/ \E tag \in TagSpecTags :
          (\A e \in DOMAIN element : ~RootElement(Heap, e)) /\ CallElementCreate(tag, 0)
    \/ \E e \in ElemIds : CallElementDestroy(e)
    \/ DOMAIN dataset = {} /\ CallDatasetCreate
    \/ \E d \in DsIds, e \in ElemIds : CallDatasetInsert(d, e)
    \/ \E d \in DsIds, tag \in TagSpecTags : CallDatasetRemove(d, tag)
    \/ \E d \in DsIds, tag \in TagSpecTags : CallDatasetContains(d, tag)
    \/ \E d \in DsIds : CallDatasetCount(d)
    \/ \E d \in DsIds : CallDatasetForeach(d)
    \/ \E d \in DsIds, n \in 0..MaxElements : CallDatasetCopyTags(d, n)
    \/ \E d \in DsIds : CallDatasetLock(d)
    \/ \E d \in DsIds : CallDatasetDestroy(d)

TagSpec == Init /\ [][TagNext]_vars

----------------------------------------------------------------------------
(* SeqSpec: sequences, the data sets that are their items and the SQ       *)
(* elements that hold them; the items hold US elements.  The caller holds  *)
(* one element, one data set and one sequence at a time.                   *)

SeqTags == {1, 7}

\* most elements alive at a time in SeqSpec
SeqElements == 2

\* the caller owns no element, no data set, no sequence
NoRootElement == \A e \in DOMAIN element : ~RootElement(Heap, e)

NoRootDataSet == \A d \in DOMAIN dataset : ~RootDataSet(Heap, d)

NoRootSequence == \A s \in DOMAIN sequence : ~RootSequence(Heap, s)

SeqNext ==
    \/ \E tag \in SeqTags :
          /\ NoRootElement
          /\ Cardinality(DOMAIN element) < SeqElements
          /\ CallElementCreate(tag, 0)
    \/ \E e \in ElemIds : CallElementDestroy(e)
    \/ \E e \in ElemIds, s \in SeqIds : CallSetValueSequence(e, s)
    \/ \E e \in ElemIds : CallGetValueSequence(e)
    \/ NoRootDataSet /\ CallDatasetCreate
    \/ \E d \in DsIds, e \in ElemIds : CallDatasetInsert(d, e)
    \/ \E d \in DsIds, tag \in SeqTags : CallDatasetRemove(d, tag)
    \/ \E d \in DsIds : CallDatasetLock(d)
    \/ \E d \in DsIds : CallDatasetDestroy(d)
    \/ NoRootSequence /\ CallSequenceCreate
    \/ \E s \in SeqIds, d \in DsIds : CallSequenceAppend(s, d)
    \/ \E s \in SeqIds, index \in 0..MaxDataSets : CallSequenceGet(s, index)
    \/ \E s \in SeqIds, index \in 0..MaxDataSets : CallSequenceRemove(s, index)
    \/ \E s \in SeqIds : CallSequenceCount(s)
    \/ \E s \in SeqIds : CallSequenceLock(s)
    \/ \E s \in SeqIds : CallSequenceDestroy(s)

SeqSpec == Init /\ [][SeqNext]_vars

----------------------------------------------------------------------------
(* LockSpec: a tree of data sets, SQ elements and sequences is put         *)
(* together and locked, and is then read and written to.                   *)

LockNext ==
    \/ \E tag \in SeqTags :
          /\ NoRootElement
          /\ Cardinality(DOMAIN element) < SeqElements
          /\ CallElementCreate(tag, 0)
    \/ \E e \in ElemIds : CallSetValueInteger(e, 1)
    \/ \E e \in ElemIds, s \in SeqIds : CallSetValueSequence(e, s)
    \/ NoRootDataSet /\ CallDatasetCreate
    \/ \E d \in DsIds, e \in ElemIds : CallDatasetInsert(d, e)
    \/ \E d \in DsIds : CallDatasetLock(d)
    \/ NoRootSequence /\ CallSequenceCreate
    \/ \E s \in SeqIds, d \in DsIds : CallSequenceAppend(s, d)
    \/ \E s \in SeqIds : CallSequenceLock(s)
    \/ \E d \in DsIds, tag \in SeqTags : CallDatasetRemove(d, tag)
    \/ \E s \in SeqIds, index \in 0..1 : CallSequenceRemove(s, index)
    \/ \E d \in DsIds, tag \in SeqTags : CallDatasetGet(d, tag)
    \/ \E d \in DsIds, tag \in SeqTags : CallDatasetContains(d, tag)
    \/ \E d \in DsIds : CallDatasetCount(d)
    \/ \E d \in DsIds : CallDatasetForeach(d)
    \/ \E d \in DsIds : CallDatasetCopyTags(d, dcm_dataset_count(Heap, d))
    \/ \E s \in SeqIds, index \in 0..1 : CallSequenceGet(s, index)
    \/ \E s \in SeqIds : CallSequenceCount(s)
    \/ \E s \in SeqIds : CallSequenceForeach(s)
    \/ \E e \in ElemIds : CallGetValueInteger(e, 0)
    \/ \E e \in ElemIds : CallGetValueSequence(e)

LockSpec == Init /\ [][LockNext]_vars

----------------------------------------------------------------------------
(* PixelSpec: frames, Basic Offset Tables and the transfer syntax test.    *)
(* One frame or table at a time.                                           *)

\* "MONOCHROME2"
Monochrome2 == <<"M", "O", "N", "O", "C", "H", "R", "O", "M", "E", "2">>

\* the arguments of dcm_frame_create but the pixel data
FrameArgs ==
    [number : {1}, data : {NULL}, length : {0, 2}, rows : {2}, columns : {1},
     samples_per_pixel : {1},
     bits_allocated : {0, 1, 4, 8}, bits_stored : {0, 1, 4, 8},
     pixel_representation : 0..2, planar_configuration : 0..2,
     photometric_interpretation : {Monochrome2},
     transfer_syntax_uid : {ExplicitVRLittleEndian}]

FrameGetters ==
    {"number", "length", "rows", "columns", "samples_per_pixel",
     "bits_allocated", "bits_stored", "high_bit", "pixel_representation",
     "planar_configuration", "photometric_interpretation",
     "transfer_syntax_uid", "value"}

\* arrays of offsets: of one frame, of three, one whose sums with the first
\* frame offset pass the largest ssize_t, and one of the largest num_frames
OffsetArrays ==
    {<<0>>, <<0, 10, 25>>, <<0, SsizeMax - 3>>, [i \in 1..(U32 - 1) |-> i - 1]}

FirstFrameOffsets == {0, 12}

Prefixes(s) == {SubSeq(s, 1, n) : n \in 0..Len(s)}

\* the four UIDs of the test, their prefixes, each of them with one more
\* character, and the UID of JPEG Baseline, "1.2.840.10008.1.2.4.50"
Uids ==
    LET four == {ImplicitVRLittleEndian, ExplicitVRLittleEndian,
                 DeflatedExplicitVRLittleEndian, ExplicitVRBigEndian}
    IN  UNION {Prefixes(u) : u \in four}
        \cup {u \o <<c>> : u \in four, c \in {".", "0", "1", "2", "9"}}
        \cup {ImplicitVRLittleEndian \o <<".", "4", ".", "5", "0">>}

\* the program has not been ended by a failed assert
Running == last.err # "ABORT"

PixelNext ==
    \/ \E a \in FrameArgs, mem \in 0..3 :
          Running /\ CallFrameCreate(<<1, 2>>, a, mem)
    \/ \E a \in FrameArgs, mem \in 0..3 : Running /\ CallFrameCreateNull(a, mem)
    \/ \E f \in FrameIds, get \in FrameGetters : Running /\ CallFrameGet(f, get)
    \/ \E f \in FrameIds : Running /\ CallFrameDestroy(f)
    \/ \E array \in OffsetArrays, first_frame_offset \in FirstFrameOffsets,
          mem \in 0..1 :
          \E num_frames \in {0, Len(array)} :
             Running /\ CallBotCreate(array, num_frames, first_frame_offset, mem)
    \/ \E num_frames \in 0..1, first_frame_offset \in FirstFrameOffsets :
          Running /\ CallBotCreateNull(num_frames, first_frame_offset, 1)
    \/ \E b \in BotIds : Running /\ CallBotGetNumFrames(b)
    \/ \E b \in BotIds, number \in 0..(U32 - 1), ndebug \in BOOLEAN :
          /\ Running
          /\ b \in DOMAIN bot
          /\ number <= bot[b].num_frames + 1
          /\ CallBotGetFrameOffset(b, number, ndebug)
    \/ \E b \in BufIds : Running /\ CallerFree(b)
    \/ \E b \in BotIds : Running /\ CallBotDestroy(b)
    \/ \E uid \in Uids : Running /\ CallIsEncapsulatedTransferSyntax(uid)

PixelSpec == Init /\ [][PixelNext]_vars

----------------------------------------------------------------------------
(* What the claims speak of *)

\* the heap of the next state
HeapNext ==
    [el |-> element', ds |-> dataset', sq |-> sequence', buf |-> buffer',
     fr |-> frame', bt |-> bot']

StringSetterOps ==
    {"set_value_string", "set_value_string_static", "set_value_string_multi"}

NumericSetterOps ==
    {"set_value_integer", "set_value_double", "set_value_numeric_multi"}

SetterOps ==
    StringSetterOps \cup NumericSetterOps \cup {"set_value_binary", "set_value_sequence"}

\* the step is a call of a setter on the element e
SetterCalled(e) == last'.op \in SetterOps /\ last'.e = e

\* every value getter fails on the element e of the heap H
AllGettersFail(H, e) ==
    /\ \A index \in Indexes :
          /\ ~dcm_element_get_value_string(H, H.el[e], index).ok
          /\ ~dcm_element_get_value_integer(H, H.el[e], index).ok
          /\ ~dcm_element_get_value_double(H, H.el[e], index).ok
    /\ ~dcm_element_get_value_binary(H, H.el[e]).ok
    /\ ~dcm_element_get_value_sequence(H, e).ok

\* what the value union of an element points to is in the next state what
\* it is now
TargetUnchanged(el) ==
    /\ (el.value.k \in {"str", "strs", "nums", "bytes"} /\ el.value.x \in DOMAIN buffer)
          => (el.value.x \in DOMAIN buffer' /\ buffer'[el.value.x] = buffer[el.value.x])
    /\ (el.value.k = "sq" /\ el.value.x \in DOMAIN sequence)
          => (el.value.x \in DOMAIN sequence'
              /\ sequence'[el.value.x] = sequence[el.value.x])

----------------------------------------------------------------------------
(* C2 *)

\* C2: once an element is assigned it stays assigned for as long as it
\* lives, and every setter called on an assigned element, of whatever kind,
\* fails with INVALID and leaves the element (tag, vr, vm, length, value
\* and what the value points to) as it was.
C2_AssignedOnce ==
    [][\A e \in DOMAIN element :
          element[e].assigned =>
             /\ e \in DOMAIN element' => element'[e].assigned
             /\ SetterCalled(e) =>
                   /\ ~last'.ok
                   /\ last'.err = "INVALID"
                   /\ e \in DOMAIN element'
                   /\ element'[e] = element[e]
                   /\ TargetUnchanged(element[e])]_vars

\* a setter was called on an assigned element and failed
C2_Witness ==
    /\ last.op \in SetterOps
    /\ ~last.ok
    /\ last.e \in DOMAIN element
    /\ element[last.e].assigned

----------------------------------------------------------------------------
(* C6 *)

\* C6: a setter that fails on an unassigned element returns false with the
\* error INVALID and leaves the element unassigned, and every value getter
\* fails on it.
C6_FailedSetterLeavesUnassigned ==
    [][\A e \in DOMAIN element :
          (~element[e].assigned /\ SetterCalled(e) /\ ~last'.ok) =>
             /\ last'.err = "INVALID"
             /\ e \in DOMAIN element'
             /\ ~element'[e].assigned
             /\ AllGettersFail(HeapNext, e)]_vars

\* a setter failed in validation: the element has the vm the setter wrote
\* and is not assigned
C6_Witness ==
    /\ last.op \in SetterOps
    /\ ~last.ok
    /\ last.e \in DOMAIN element
    /\ ~element[last.e].assigned
    /\ element[last.e].vm > 0

----------------------------------------------------------------------------
(* C3 *)

\* the element c of the heap H equals the element el by value: tag, vr, vm
\* and length, and for a sequence as many items
EqualByValue(H, c, el, items) ==
    /\ c \in DOMAIN H.el
    /\ H.el[c].assigned
    /\ H.el[c].tag = el.tag
    /\ H.el[c].vr = el.vr
    /\ H.el[c].vm = el.vm
    /\ H.el[c].length = el.length
    /\ H.el[c].value.k = "sq"
    /\ H.el[c].value.x \in DOMAIN H.sq
    /\ Len(H.sq[H.el[c].value.x].items) = items

\* C3 (the SEQUENCE case): dcm_element_clone of an assigned SEQUENCE
\* element succeeds and returns another element that is equal to it by
\* value and owns a sequence of its own.
C3_CloneOfSequenceSucceeds ==
    [][\A e \in DOMAIN element :
          (/\ element[e].assigned
           /\ dcm_dict_vr_class(element[e].vr) = "SEQUENCE"
           /\ last'.op = "element_clone"
           /\ last'.e = e) =>
             /\ last'.ok
             /\ last'.ret # NULL
             /\ last'.ret # e
             /\ EqualByValue(HeapNext, last'.ret, element[e],
                             Len(sequence[element[e].value.x].items))
             /\ element'[last'.ret].value.x # element[e].value.x]_vars

----------------------------------------------------------------------------
(* C7 *)

\* C7: a setter that returns false leaves the vm, the length, the assigned
\* flag and the stored value of its element as they were before the call.
C7_FailedSetterChangesNothing ==
    [][\A e \in DOMAIN element :
          (SetterCalled(e) /\ ~last'.ok) =>
             /\ e \in DOMAIN element'
             /\ element'[e].vm = element[e].vm
             /\ element'[e].length = element[e].length
             /\ element'[e].assigned = element[e].assigned
             /\ element'[e].value = element[e].value]_vars

----------------------------------------------------------------------------
(* C8 *)

\* the even length the specification gives a provisional length
RoundedUp(length) == IF length % 2 # 0 THEN length + 1 ELSE length

\* C8: the element dcm_element_create returned has an even length, the
\* provisional length rounded up by one when it is odd, for every uint32_t
\* provisional length; every element has an even length, and every
\* assigned element has the VR of the dictionary for its tag, of a class
\* other than ERROR.
C8_EvenLengthAndDictionaryVr ==
    /\ (last.op = "element_create" /\ last.ok) =>
          /\ last.ret \in DOMAIN element
          /\ element[last.ret].length % 2 = 0
          /\ element[last.ret].length = RoundedUp(last.arg[2])
    /\ \A e \in DOMAIN element :
          /\ element[e].length % 2 = 0
          /\ element[e].assigned =>
                /\ element[e].vr = dcm_dict_lookup_vr(element[e].tag)
                /\ dcm_dict_vr_class(element[e].vr) # "ERROR"

----------------------------------------------------------------------------
(* C9 *)

\* the number of values a numeric setter was called with
NumericVm == IF last'.op = "set_value_numeric_multi" THEN Len(last'.arg) ELSE 1

\* C9: every assigned NUMERIC element has length = vm * vr_size(vr),
\* whichever setter or clone assigned it and whatever its provisional
\* length was; and a numeric setter called with a number of values that
\* does not match the non-zero length of its element fails with INVALID.
C9_NumericLength ==
    [][/\ \A e \in DOMAIN element' :
             (element'[e].assigned
              /\ dcm_dict_vr_class(element'[e].vr) = "NUMERIC") =>
                element'[e].length = element'[e].vm * dcm_dict_vr_size(element'[e].vr)
       /\ \A e \in DOMAIN element :
             (/\ last'.op \in NumericSetterOps
              /\ last'.e = e
              /\ element[e].length # 0
              /\ element[e].length # NumericVm * dcm_dict_vr_size(element[e].vr)) =>
                (~last'.ok /\ last'.err = "INVALID")]_vars

\* a numeric setter was called on an unassigned NUMERIC element with a
\* provisional length that its values do not match, and failed
C9_Witness ==
    /\ last.op \in NumericSetterOps
    /\ ~last.ok
    /\ last.e \in DOMAIN element
    /\ dcm_dict_vr_class(element[last.e].vr) = "NUMERIC"
    /\ ~element[last.e].assigned
    /\ element[last.e].length # 0
    /\ element[last.e].length # element[last.e].vm * dcm_dict_vr_size(element[last.e].vr)

----------------------------------------------------------------------------
(* C10 *)

\* the values a string setter was called with: the strings of the array,
\* the parts of a character string given to a STRING_MULTI element, the
\* character string itself given to any other element
StringValues(op, arg, vr) ==
    IF op = "set_value_string_multi" THEN arg
    ELSE IF dcm_dict_vr_class(vr) = "STRING_MULTI"
         THEN dcm_parse_character_string(arg)
         ELSE <<arg>>

\* C10: every value of an assigned STRING_SINGLE or STRING_MULTI element,
\* as dcm_element_get_value_string returns it for an index below vm, is at
\* most vr_capacity(vr) bytes long; and a string setter called with a value
\* longer than the capacity fails with INVALID.
C10_StringCapacity ==
    [][/\ \A e \in DOMAIN element' :
             (element'[e].assigned /\ element_check_string(element'[e])) =>
                \A index \in 0..(element'[e].vm - 1) :
                   LET g == dcm_element_get_value_string(HeapNext, element'[e], index)
                   IN  g.ok /\ strlen(g.val) <= dcm_dict_vr_capacity(element'[e].vr)
       /\ \A e \in DOMAIN element :
             (/\ last'.op \in StringSetterOps
              /\ last'.e = e
              /\ element_check_string(element[e])
              /\ \E v \in Range(StringValues(last'.op, last'.arg, element[e].vr)) :
                    strlen(v) > dcm_dict_vr_capacity(element[e].vr)) =>
                (~last'.ok /\ last'.err = "INVALID")]_vars

\* a string setter was called on an unassigned string element with a value
\* longer than the capacity of its VR, and failed
C10_Witness ==
    /\ last.op \in StringSetterOps
    /\ ~last.ok
    /\ last.e \in DOMAIN element
    /\ element_check_string(element[last.e])
    /\ ~element[last.e].assigned
    /\ \E v \in Range(StringValues(last.op, last.arg, element[last.e].vr)) :
          strlen(v) > dcm_dict_vr_capacity(element[last.e].vr)

----------------------------------------------------------------------------
(* C1 *)

\* the elements the data set d holds are in the next state what they are
\* now
ElementsUnchanged(d) ==
    \A x \in Range(dataset[d].elements) :
       x \in DOMAIN element' /\ element'[x] = element[x]

\* C1: on a locked data set every dcm_dataset_insert and every
\* dcm_dataset_remove fails with INVALID and leaves the data set, its
\* elements and its count as they were, while dcm_dataset_get and
\* dcm_dataset_contains (of a tag the set holds), dcm_dataset_count and
\* dcm_dataset_is_locked succeed.
C1_LockedDataSet ==
    [][\A d \in DOMAIN dataset :
          (dataset[d].is_locked /\ last'.d = d) =>
             /\ last'.op \in {"dataset_insert", "dataset_remove"} =>
                   /\ ~last'.ok
                   /\ last'.err = "INVALID"
                   /\ d \in DOMAIN dataset'
                   /\ dataset'[d] = dataset[d]
                   /\ ElementsUnchanged(d)
                   /\ dcm_dataset_count(HeapNext, d) = dcm_dataset_count(Heap, d)
             /\ (last'.op \in {"dataset_get", "dataset_contains"}
                 /\ HASH_FIND_INT(Heap, d, last'.arg[1]) # NULL) =>
                   /\ last'.ok
                   /\ last'.ret = HASH_FIND_INT(Heap, d, last'.arg[1])
             /\ last'.op = "dataset_count" =>
                   last'.ok /\ last'.ret = Len(dataset[d].elements)
             /\ last'.op = "dataset_is_locked" => last'.ok /\ last'.ret = 1]_vars

\* dcm_dataset_remove was called on a locked data set for a tag it holds
C1_Witness ==
    /\ last.op = "dataset_remove"
    /\ last.d \in DOMAIN dataset
    /\ dataset[last.d].is_locked
    /\ HASH_FIND_INT(Heap, last.d, last.arg[1]) # NULL

----------------------------------------------------------------------------
(* C4 *)

\* C4: dcm_dataset_insert of an element whose tag an unlocked data set
\* holds already fails with INVALID and destroys the new element; the data
\* set holds the element it held, unchanged, and as many elements as
\* before.
C4_DuplicateInsert ==
    [][\A d \in DOMAIN dataset, e \in DOMAIN element :
          (/\ last'.op = "dataset_insert"
           /\ last'.d = d
           /\ last'.e = e
           /\ ~dataset[d].is_locked
           /\ HASH_FIND_INT(Heap, d, element[e].tag) # NULL) =>
             LET old == HASH_FIND_INT(Heap, d, element[e].tag)
             IN  /\ ~last'.ok
                 /\ last'.err = "INVALID"
                 /\ e \notin DOMAIN element'
                 /\ old \in DOMAIN element'
                 /\ element'[old] = element[old]
                 /\ HASH_FIND_INT(HeapNext, d, element[old].tag) = old
                 /\ dataset'[d] = dataset[d]
                 /\ dcm_dataset_count(HeapNext, d) = dcm_dataset_count(Heap, d)]_vars

\* an insert into an unlocked data set failed, which a duplicate tag alone
\* brings about, and the data set holds an assigned element
C4_Witness ==
    /\ last.op = "dataset_insert"
    /\ ~last.ok
    /\ last.d \in DOMAIN dataset
    /\ ~dataset[last.d].is_locked
    /\ \E x \in Range(dataset[last.d].elements) : element[x].assigned

----------------------------------------------------------------------------
(* C5 *)

\* C5: after dcm_dataset_insert(d, e) succeeded, dcm_dataset_contains and
\* dcm_dataset_get return e for the tag of e, dcm_dataset_count is one
\* more than before, and every element d held is still returned for its
\* tag.
C5_InsertThenFind ==
    [][\A d \in DOMAIN dataset, e \in DOMAIN element :
          (last'.op = "dataset_insert" /\ last'.d = d /\ last'.e = e /\ last'.ok) =>
             /\ dcm_dataset_contains(HeapNext, d, element[e].tag) = e
             /\ dcm_dataset_get(HeapNext, d, element[e].tag).ok
             /\ dcm_dataset_get(HeapNext, d, element[e].tag).ret = e
             /\ dcm_dataset_count(HeapNext, d) = dcm_dataset_count(Heap, d) + 1
             /\ \A x \in Range(dataset[d].elements) :
                   /\ x \in DOMAIN element'
                   /\ element'[x] = element[x]
                   /\ dcm_dataset_get(HeapNext, d, element[x].tag).ret = x]_vars

\* an insert into a data set that held an element succeeded
C5_Witness ==
    /\ last.op = "dataset_insert"
    /\ last.ok
    /\ last.d \in DOMAIN dataset
    /\ Len(dataset[last.d].elements) >= 2
    /\ dataset[last.d].elements[Len(dataset[last.d].elements)] = last.e

----------------------------------------------------------------------------
(* C11 *)

\* C11: the vm of an element is 0 for as long as no setter has succeeded on
\* it, and at least 1 whenever the element is assigned, whichever setter,
\* with whatever arguments, or clone assigned it.
C11_VmCountsValues ==
    \A e \in DOMAIN element :
       IF element[e].assigned THEN element[e].vm >= 1 ELSE element[e].vm = 0

----------------------------------------------------------------------------
(* StrSpec: one string element, created with no provisional length, and the *)
(* string setters called on it, failing ones too.                          *)

StrNext ==
    \/ \E tag \in {4, 5} :
          DOMAIN element = {} /\ CallerIdle /\ CallElementCreate(tag, 0)
    \/ \E e \in ElemIds : CallElementDestroy(e)
    \/ \E e \in ElemIds, str \in Strings : CallSetValueString(e, str)
    \/ \E e \in ElemIds, str \in Strings : CallSetValueStringStatic(e, str)
    \/ \E e \in ElemIds, values \in StringArrays, steal \in BOOLEAN :
          CallSetValueStringMulti(e, values, steal)
    \/ \E e \in ElemIds, index \in Indexes : CallGetValueString(e, index)
    \/ \E b \in BufIds : CallerFree(b)

StrSpec == Init /\ [][StrNext]_vars

----------------------------------------------------------------------------
(* C12 *)

\* the byte lengths of the vm values of the string element e, as
\* dcm_element_get_value_string returns them
ValueLengths(e) ==
    [i \in 1..element[e].vm |->
        strlen(dcm_element_get_value_string(Heap, element[e], i - 1).val)]

\* C12: every assigned string element that was created with provisional
\* length 0 has for length the sum of the byte lengths of its vm values
\* plus vm - 1 separators, rounded up to even, whatever setter calls came
\* before the one that succeeded.
C12_StringLength ==
    \A e \in DOMAIN element :
       (element[e].assigned /\ element_check_string(element[e]) /\ element[e].vm >= 1) =>
          element[e].length = RoundedUp(SumSeq(ValueLengths(e)) + element[e].vm - 1)

----------------------------------------------------------------------------
(* C13 *)

\* the int64_t values the integer type of the VR can hold
IntegerInRange(vr, value) ==
    IF IntSigned(vr)
    THEN -Pow2(IntBits(vr) - 1) <= value /\ value < Pow2(IntBits(vr) - 1)
    ELSE 0 <= value /\ value < Pow2(IntBits(vr))

\* what the numeric getter of the VR returns for the element el at index
GetNumeric(H, el, index) ==
    IF element_check_integer(el)
    THEN dcm_element_get_value_integer(H, el, index)
    ELSE dcm_element_get_value_double(H, el, index)

\* C13: after a setter succeeded, the matching getter returns what was set
\* for every index below vm: the backslash-separated parts, in order, of a
\* character string given to a STRING_MULTI element; the whole string, with
\* vm 1, given to a STRING_SINGLE element; the i-th string or number of an
\* array at index i; the integer (one its VR can hold) or double that was
\* set; the buffer given to set_value_binary and the sequence given to
\* set_value_sequence.
C13_SetThenGet ==
    [][\A e \in DOMAIN element :
          (SetterCalled(e) /\ last'.ok) =>
             /\ e \in DOMAIN element'
             /\ last'.op \in StringSetterOps =>
                   LET vals == StringValues(last'.op, last'.arg, element[e].vr)
                   IN  /\ element'[e].vm = Len(vals)
                       /\ \A i \in 0..(Len(vals) - 1) :
                             LET g == dcm_element_get_value_string(HeapNext, element'[e], i)
                             IN  g.ok /\ g.val = vals[i + 1]
             /\ last'.op = "set_value_numeric_multi" =>
                   /\ element'[e].vm = Len(last'.arg)
                   /\ \A i \in 0..(Len(last'.arg) - 1) :
                         LET g == GetNumeric(HeapNext, element'[e], i)
                         IN  g.ok /\ g.val = last'.arg[i + 1]
             /\ (last'.op = "set_value_integer"
                 /\ IntegerInRange(element[e].vr, last'.arg[1])) =>
                   LET g == dcm_element_get_value_integer(HeapNext, element'[e], 0)
                   IN  element'[e].vm = 1 /\ g.ok /\ g.val = last'.arg[1]
             /\ last'.op = "set_value_double" =>
                   LET g == dcm_element_get_value_double(HeapNext, element'[e], 0)
                   IN  element'[e].vm = 1 /\ g.ok /\ g.val = last'.arg[1]
             /\ last'.op = "set_value_binary" =>
                   LET g == dcm_element_get_value_binary(HeapNext, element'[e])
                   IN  /\ g.ok
                       /\ g.val = FreshId(buffer, BufIds)
                       /\ g.val \in DOMAIN buffer'
                       /\ buffer'[g.val].d = last'.arg
             /\ last'.op = "set_value_sequence" =>
                   LET g == dcm_element_get_value_sequence(HeapNext, e)
                   IN  g.ok /\ g.ret = last'.s]_vars

\* set_value_string succeeded on a STRING_MULTI element with a character
\* string of two parts
C13_Witness ==
    /\ last.op = "set_value_string"
    /\ last.ok
    /\ last.e \in DOMAIN element
    /\ dcm_dict_vr_class(element[last.e].vr) = "STRING_MULTI"
    /\ element[last.e].vm = 2
    /\ Len(dcm_parse_character_string(last.arg)) = 2

----------------------------------------------------------------------------
(* C14 *)

\* C14: a Data Set or a Sequence that is locked is locked in every later
\* state in which it lives, whatever operation is called: nothing unlocks.
C14_LockIsOneWay ==
    [][/\ \A d \in DOMAIN dataset \cap DOMAIN dataset' :
             dcm_dataset_is_locked(Heap, d) => dcm_dataset_is_locked(HeapNext, d)
       /\ \A s \in DOMAIN sequence \cap DOMAIN sequence' :
             dcm_sequence_is_locked(Heap, s) => dcm_sequence_is_locked(HeapNext, s)]_vars

\* an operation was called on a locked sequence that holds a locked item,
\* while another data set is locked too
C14_Witness ==
    /\ last.op \in {"sequence_get", "sequence_remove", "sequence_lock"}
    /\ last.s \in DOMAIN sequence
    /\ sequence[last.s].is_locked
    /\ sequence[last.s].items # <<>>
    /\ \A d \in DOMAIN dataset : dataset[d].is_locked
    /\ Cardinality(DOMAIN dataset) = 2

----------------------------------------------------------------------------
(* C15 *)

\* the data set d is an item of a sequence of the heap H
IsItem(H, d) == \E s \in DOMAIN H.sq : d \in Range(H.sq[s].items)

\* C15: every data set that is an item of a sequence is locked, from the
\* state in which dcm_sequence_append returns on; and every
\* dcm_dataset_insert into and dcm_dataset_remove from an item fails with
\* INVALID and leaves the item as it was.
C15_ItemsAreLocked ==
    [][/\ \A d \in DsIds :
             IsItem(HeapNext, d) =>
                d \in DOMAIN dataset' /\ dcm_dataset_is_locked(HeapNext, d)
       /\ \A s \in DOMAIN sequence, d \in DOMAIN dataset :
             (last'.op = "sequence_append" /\ last'.s = s /\ last'.d = d /\ last'.ok) =>
                /\ sequence'[s].items = Append(sequence[s].items, d)
                /\ dcm_dataset_is_locked(HeapNext, d)
       /\ \A d \in DOMAIN dataset :
             (/\ IsItem(Heap, d)
              /\ last'.op \in {"dataset_insert", "dataset_remove"}
              /\ last'.d = d) =>
                /\ ~last'.ok
                /\ last'.err = "INVALID"
                /\ d \in DOMAIN dataset'
                /\ dataset'[d] = dataset[d]
                /\ ElementsUnchanged(d)]_vars

\* dcm_dataset_remove was called for a tag that an item of a sequence holds
C15_Witness ==
    /\ last.op = "dataset_remove"
    /\ last.d \in DOMAIN dataset
    /\ IsItem(Heap, last.d)
    /\ HASH_FIND_INT(Heap, last.d, last.arg[1]) # NULL

----------------------------------------------------------------------------
(* C16 *)

\* C16: dcm_sequence_get(seq, i) with i < count returns the i-th item in
\* append order, of a locked and of an unlocked sequence alike, and the
\* item is locked afterwards; with i >= count it fails with INVALID,
\* returns NULL and leaves the sequence and its items as they were.
C16_SequenceGet ==
    [][\A s \in DOMAIN sequence :
          (last'.op = "sequence_get" /\ last'.s = s) =>
             LET i == last'.arg[1]
             IN  /\ s \in DOMAIN sequence'
                 /\ sequence'[s] = sequence[s]
                 /\ i < dcm_sequence_count(Heap, s) =>
                       /\ last'.ok
                       /\ last'.ret = sequence[s].items[i + 1]
                       /\ last'.ret \in DOMAIN dataset'
                       /\ dcm_dataset_is_locked(HeapNext, last'.ret)
                       /\ dataset'[last'.ret].elements = dataset[last'.ret].elements
                 /\ i >= dcm_sequence_count(Heap, s) =>
                       /\ ~last'.ok
                       /\ last'.err = "INVALID"
                       /\ last'.ret = NULL
                       /\ dataset' = dataset
                       /\ element' = element]_vars

\* dcm_sequence_get returned the second of two items
C16_Witness ==
    /\ last.op = "sequence_get"
    /\ last.ok
    /\ last.s \in DOMAIN sequence
    /\ Len(sequence[last.s].items) = 2
    /\ last.arg = <<1>>
    /\ last.ret = sequence[last.s].items[2]

----------------------------------------------------------------------------
(* C17 *)

\* C17: dcm_element_get_value_sequence on an assigned SEQUENCE element
\* returns the sequence that was given to dcm_element_set_value_sequence
\* and locks it; and on a locked sequence every dcm_sequence_append and
\* dcm_sequence_remove fails with INVALID and leaves its items and count
\* as they were, while dcm_sequence_get (of an index below count) and
\* dcm_sequence_count succeed.
C17_LockedSequence ==
    [][/\ \A e \in DOMAIN element :
             /\ (last'.op = "set_value_sequence" /\ last'.e = e /\ last'.ok) =>
                   element'[e].sequence_pointer = last'.s
             /\ (/\ last'.op = "get_value_sequence"
                 /\ last'.e = e
                 /\ element[e].assigned
                 /\ element_check_sequence(element[e])) =>
                   /\ last'.ok
                   /\ last'.ret = element[e].sequence_pointer
                   /\ last'.ret \in DOMAIN sequence'
                   /\ dcm_sequence_is_locked(HeapNext, last'.ret)
                   /\ sequence'[last'.ret].items = sequence[last'.ret].items
       /\ \A s \in DOMAIN sequence :
             (dcm_sequence_is_locked(Heap, s) /\ last'.s = s) =>
                /\ last'.op \in {"sequence_append", "sequence_remove"} =>
                      /\ ~last'.ok
                      /\ last'.err = "INVALID"
                      /\ s \in DOMAIN sequence'
                      /\ sequence'[s].items = sequence[s].items
                      /\ dcm_sequence_count(HeapNext, s) = dcm_sequence_count(Heap, s)
                      /\ \A d \in Range(sequence[s].items) :
                            d \in DOMAIN dataset' /\ dataset'[d] = dataset[d]
                /\ (last'.op = "sequence_get"
                    /\ last'.arg[1] < dcm_sequence_count(Heap, s)) =>
                      last'.ok /\ last'.ret = sequence[s].items[last'.arg[1] + 1]
                /\ last'.op = "sequence_count" =>
                      last'.ok /\ last'.ret = Len(sequence[s].items)]_vars

\* dcm_sequence_remove of an item that is there failed on the sequence that
\* an element owns: the sequence is locked
C17_Witness ==
    /\ last.op = "sequence_remove"
    /\ ~last.ok
    /\ last.s \in DOMAIN sequence
    /\ last.arg[1] < Len(sequence[last.s].items)
    /\ \E e \in DOMAIN element :
          element[e].assigned /\ element[e].sequence_pointer = last.s

----------------------------------------------------------------------------
(* C18 *)

\* C18: dcm_sequence_remove(seq, i) on an unlocked sequence with i < count
\* removes item i and no other: the count is one less, the items before i
\* keep their index, those after i move one to the left in their order, and
\* the removed data set is destroyed with what it owns, and nothing else
\* is; on a locked sequence or with i >= count it sets INVALID and changes
\* nothing.
C18_SequenceRemove ==
    [][\A s \in DOMAIN sequence :
          (last'.op = "sequence_remove" /\ last'.s = s) =>
             LET i == last'.arg[1]
                 items == sequence[s].items
                 n == Len(items)
             IN  /\ s \in DOMAIN sequence'
                 /\ sequence'[s].is_locked = sequence[s].is_locked
                 /\ (~dcm_sequence_is_locked(Heap, s) /\ i < n) =>
                       /\ last'.ok
                       /\ dcm_sequence_count(HeapNext, s) = n - 1
                       /\ sequence'[s].items = SubSeq(items, 1, i) \o SubSeq(items, i + 2, n)
                       /\ items[i + 1] \notin DOMAIN dataset'
                       /\ \A x \in Range(dataset[items[i + 1]].elements) :
                             x \notin DOMAIN element'
                       /\ \A d \in Range(sequence'[s].items) :
                             /\ d \in DOMAIN dataset'
                             /\ dataset'[d] = dataset[d]
                             /\ ElementsUnchanged(d)
                       /\ \A d \in DOMAIN dataset \ DsTree(Heap, items[i + 1]).ds :
                             /\ d \in DOMAIN dataset'
                             /\ dataset'[d] = dataset[d]
                             /\ ElementsUnchanged(d)
                 /\ (dcm_sequence_is_locked(Heap, s) \/ i >= n) =>
                       /\ ~last'.ok
                       /\ last'.err = "INVALID"
                       /\ sequence' = sequence
                       /\ dataset' = dataset
                       /\ element' = element]_vars

\* the first of two items was removed: the second is the only data set left
C18_Witness ==
    /\ last.op = "sequence_remove"
    /\ last.ok
    /\ last.arg = <<0>>
    /\ last.s \in DOMAIN sequence
    /\ Len(sequence[last.s].items) = 1
    /\ Cardinality(DOMAIN dataset) = 1
    /\ DOMAIN element = {}

----------------------------------------------------------------------------
(* SqSpec: one SQ element and the sequence it is given, whose item holds   *)
(* US and SS elements with and without a provisional length.               *)

\* the provisional lengths of the elements of the item: none, and 2^31
SeqLengths == {0, U32 \div 2}

SqNext ==
    \/ \E tag \in SpecTags, length \in SeqLengths :
          NoRootElement /\ CallElementCreate(tag, length)
    \/ NoRootElement /\ CallElementCreate(7, 0)
    \/ \E e \in ElemIds : CallElementDestroy(e)
    \/ DOMAIN dataset = {} /\ CallDatasetCreate
    \/ \E d \in DsIds, e \in ElemIds : CallDatasetInsert(d, e)
    \/ \E d \in DsIds : CallDatasetDestroy(d)
    \/ DOMAIN sequence = {} /\ CallSequenceCreate
    \/ \E s \in SeqIds, d \in DsIds : CallSequenceAppend(s, d)
    \/ \E s \in SeqIds : CallSequenceDestroy(s)
    \/ \E e \in ElemIds, s \in SeqIds : CallSetValueSequence(e, s)
    \/ \E e \in ElemIds : CallGetValueSequence(e)

SqSpec == Init /\ [][SqNext]_vars

----------------------------------------------------------------------------
(* C19 *)

\* the sum of the lengths of the elements of the data set d
DataSetLength(d) ==
    SumSeq([j \in 1..Len(dataset[d].elements) |-> element[dataset[d].elements[j]].length])

\* the sum over the items of the sequence s
ItemsLength(s) ==
    SumSeq([i \in 1..Len(sequence[s].items) |-> DataSetLength(sequence[s].items[i])])

\* C19: after dcm_element_set_value_sequence(e, seq) succeeded on a SEQUENCE
\* element created with provisional length 0, vm(e) is 1, e owns seq, and
\* length(e) is the sum over the items of seq of the lengths of the
\* elements of each item.
C19_SequenceLength ==
    [][\A e \in DOMAIN element, s \in DOMAIN sequence :
          (/\ last'.op = "set_value_sequence"
           /\ last'.e = e
           /\ last'.s = s
           /\ last'.ok
           /\ element[e].length = 0) =>
             /\ element'[e].vm = 1
             /\ element'[e].sequence_pointer = s
             /\ ElTree(HeapNext, e).sq = SqTree(Heap, s).sq
             /\ element'[e].length = ItemsLength(s)]_vars

----------------------------------------------------------------------------
(* C20 *)

\* the setters that are given a buffer
BufferSetterOps ==
    StringSetterOps \cup {"set_value_numeric_multi", "set_value_binary"}

\* nothing of the tree t of the heap before the step is left after it
Destroyed(t) ==
    /\ t.el \cap DOMAIN element' = {}
    /\ t.ds \cap DOMAIN dataset' = {}
    /\ t.sq \cap DOMAIN sequence' = {}

\* a dcm_dataset_insert that fails destroys the element, a
\* dcm_sequence_append that fails destroys the data set, each with what it
\* owns
FailedInsertOrAppendDestroys ==
    /\ \A e \in DOMAIN element :
          (last'.op = "dataset_insert" /\ last'.e = e /\ ~last'.ok) =>
             Destroyed(ElTree(Heap, e))
    /\ \A d \in DOMAIN dataset :
          (last'.op = "sequence_append" /\ last'.d = d /\ ~last'.ok) =>
             Destroyed(DsTree(Heap, d))

----------------------------------------------------------------------------
(* C21 *)

\* C21: dcm_element_create of a tag whose VR the dictionary does not know
\* fails: it returns NULL, leaves no element behind and sets an INVALID
\* error; of every other tag it returns an unassigned element with the VR
\* of the dictionary and vm 0.
C21_CreateUnknownTag ==
    (last.op = "element_create") =>
       IF dcm_dict_lookup_vr(last.arg[1]) = "uk"
       THEN /\ ~last.ok
            /\ last.ret = NULL
            /\ DOMAIN element = {}
            /\ last.err = "INVALID"
       ELSE /\ last.ok
            /\ last.ret \in DOMAIN element
            /\ element[last.ret].vr = dcm_dict_lookup_vr(last.arg[1])
            /\ element[last.ret].tag = last.arg[1]
            /\ element[last.ret].vm = 0
            /\ ~element[last.ret].assigned

----------------------------------------------------------------------------
(* C22 *)

\* the tags of the elements of the data set d
TagsOf(d) == {element[e].tag : e \in Range(dataset[d].elements)}

\* C22: dcm_dataset_copy_tags with n == count leaves the tags of the data
\* set in the array in strictly ascending order as unsigned 32-bit numbers,
\* whatever the tags are, those 2^31 or more apart too.
C22_CopyTagsAscending ==
    (/\ last.op = "dataset_copy_tags"
     /\ last.d \in DOMAIN dataset
     /\ last.arg[1] = dcm_dataset_count(Heap, last.d)) =>
       /\ Len(last.val) = dcm_dataset_count(Heap, last.d)
       /\ Range(last.val) = TagsOf(last.d)
       /\ \A i, j \in 1..Len(last.val) : i < j => last.val[i] < last.val[j]

----------------------------------------------------------------------------
(* C23 *)

\* the element e, not in any data set, can be inserted into the unlocked
\* data set d, which holds no element of its tag
CanInsert(H, d, e) ==
    /\ RootElement(H, e)
    /\ d \notin ElTree(H, e).ds
    /\ ~dcm_dataset_is_locked(H, d)
    /\ dcm_dataset_contains(H, d, H.el[e].tag) = NULL

\* insert e into d, remove its tag, create a new element of the tag and
\* insert that: the four results
InsertRemoveInsert(H, d, e) ==
    LET t  == H.el[e].tag
        r1 == dcm_dataset_insert(H, d, e)
        r2 == dcm_dataset_remove(r1.H, d, t)
        c  == dcm_element_create(r2.H, t, 0)
        r3 == dcm_dataset_insert(c.H, d, c.ret)
    IN  [ins |-> r1, rem |-> r2, new |-> c, again |-> r3]

\* C23: in every reachable state, inserting an element of a tag t the
\* unlocked data set does not hold and then removing t both succeed, the
\* element is gone (and was in the set until the remove), the set has its
\* elements, count and tags of before the insert, contains(t) is null and a
\* new element of tag t can be inserted.
C23_InsertThenRemove ==
    \A d \in DOMAIN dataset, e \in DOMAIN element :
       CanInsert(Heap, d, e) =>
          LET t == element[e].tag
              r == InsertRemoveInsert(Heap, d, e)
          IN  /\ r.ins.ok
              /\ e \in DOMAIN r.ins.H.el
              /\ dcm_dataset_contains(r.ins.H, d, t) = e
              /\ r.rem.ok
              /\ e \notin DOMAIN r.rem.H.el
              /\ DOMAIN r.rem.H.el = DOMAIN element \ ElTree(Heap, e).el
              /\ r.rem.H.ds[d] = dataset[d]
              /\ dcm_dataset_count(r.rem.H, d) = dcm_dataset_count(Heap, d)
              /\ dcm_dataset_contains(r.rem.H, d, t) = NULL
              /\ r.new.ok
              /\ r.again.ok
              /\ dcm_dataset_contains(r.again.H, d, t) = r.new.ret
              /\ dcm_dataset_count(r.again.H, d) = dcm_dataset_count(Heap, d) + 1

\* remove(t) has just succeeded on a data set that still holds an element,
\* and an element of tag t is there to be inserted into it
C23_Witness ==
    /\ last.op = "dataset_remove" /\ last.ok
    /\ last.d \in DOMAIN dataset
    /\ dcm_dataset_count(Heap, last.d) > 0
    /\ \E e \in DOMAIN element :
          /\ element[e].tag = last.arg[1]
          /\ CanInsert(Heap, last.d, e)

----------------------------------------------------------------------------
(* C24 *)

\* every data set and every sequence is locked and every element has its
\* value
FullyLocked ==
    /\ \A d \in DOMAIN dataset : dcm_dataset_is_locked(Heap, d)
    /\ \A s \in DOMAIN sequence : dcm_sequence_is_locked(Heap, s)
    /\ \A e \in DOMAIN element : element[e].assigned

ReadOps ==
    {"dataset_get", "dataset_contains", "dataset_count", "dataset_foreach",
     "dataset_copy_tags", "sequence_get", "sequence_count", "sequence_foreach",
     "get_value_integer", "get_value_sequence"}

MutatorOps ==
    {"dataset_insert", "dataset_remove", "sequence_append", "sequence_remove",
     "set_value_integer", "set_value_sequence"}

\* what the rejected call takes with it: insert the element it was given,
\* append the data set it was given, with all they hold
TakenByRejected(c) ==
    IF c.op = "dataset_insert" THEN ElTree(Heap, c.e)
    ELSE IF c.op = "sequence_append" THEN DsTree(Heap, c.d)
    ELSE NoTree

----------------------------------------------------------------------------
(* C25 *)

\* the buffer the constructor was given: the pixel data of
\* dcm_frame_create, the offsets of dcm_bot_create
GivenBuffer(c) == IF c.op = "frame_create" THEN c.arg[1].data ELSE c.arg[1]

\* a constructor that returned null has freed the buffer it was given and
\* left no object
FailedCreateFreesBuffer ==
    (last.op \in {"frame_create", "bot_create"} /\ ~last.ok) =>
       /\ last.ret = NULL
       /\ DOMAIN frame = {} /\ DOMAIN bot = {}
       /\ GivenBuffer(last) \notin DOMAIN buffer
       /\ DOMAIN buffer = {}

\* a constructor that returned an object has made it the owner of the
\* buffer
CreatedOwnsBuffer ==
    /\ (last.op = "frame_create" /\ last.ok) =>
          /\ last.ret \in DOMAIN frame
          /\ dcm_frame_get_value(Heap, last.ret) = GivenBuffer(last)
          /\ GivenBuffer(last) \in DOMAIN buffer
    /\ (last.op = "bot_create" /\ last.ok) =>
          /\ last.ret \in DOMAIN bot
          /\ bot[last.ret].offsets = GivenBuffer(last)
          /\ GivenBuffer(last) \in DOMAIN buffer

\* destroy frees the object and what it owns
DestroyFreesBuffer ==
    (last.op \in {"frame_destroy", "bot_destroy"}) =>
       DOMAIN frame = {} /\ DOMAIN bot = {} /\ DOMAIN buffer = {}

\* C25: dcm_frame_create and dcm_bot_create either return an object that
\* owns the buffer given (and destroy then frees it), or return null with
\* the buffer freed and no object left, whatever made them fail.
C25_CreateAllOrNothing ==
    FailedCreateFreesBuffer /\ CreatedOwnsBuffer /\ DestroyFreesBuffer

----------------------------------------------------------------------------
(* C26 *)

GetterOps ==
    {"get_value_string", "get_value_integer", "get_value_double",
     "get_value_binary", "get_value_sequence"}

IndexedGetterOps == {"get_value_string", "get_value_integer", "get_value_double"}

\* the getter that reads values of the VR
GetterOfVr(vr) ==
    CASE vr \in {"PN", "LT"} -> "get_value_string"
      [] vr \in {"US", "SS"} -> "get_value_integer"
      [] vr = "FD" -> "get_value_double"
      [] vr = "OB" -> "get_value_binary"
      [] vr = "SQ" -> "get_value_sequence"
      [] OTHER -> "none"

\* the call c of a getter on the element el can be answered: el is
\* assigned, of the getter's class, and the index is below vm
GetterFits(c, el) ==
    /\ el.assigned
    /\ GetterOfVr(el.vr) = c.op
    /\ c.op \in IndexedGetterOps => c.arg[1] < el.vm

\* the call c of a getter has left *value as it was
NothingWritten(c) ==
    /\ c.ret = NULL
    /\ CASE c.op = "get_value_string" -> c.val = <<>>
         [] c.op \in {"get_value_integer", "get_value_double"} -> c.val = 0
         [] c.op = "get_value_binary" -> c.val = NULL
         [] OTHER -> TRUE

\* C26: a value getter succeeds exactly when the element is assigned, its VR
\* is of the getter's class and, for the getters with an index, index < vm;
\* otherwise it fails with INVALID and writes no result.  In both cases the
\* element has the tag, vr, vm, length, assigned flag and value it had.
C26_GettersCheckAndKeep ==
    [][(last'.op \in GetterOps /\ last'.e \in DOMAIN element) =>
          /\ last'.ok = GetterFits(last', element[last'.e])
          /\ ~last'.ok => last'.err = "INVALID" /\ NothingWritten(last')
          /\ last'.ok => last'.err = "NONE"
          /\ element' = element]_vars

\* the second string of an element with two strings has been read
C26_Witness ==
    /\ last.op = "get_value_string" /\ last.ok
    /\ last.arg = <<1>>
    /\ last.e \in DOMAIN element
    /\ element[last.e].vm = 2

----------------------------------------------------------------------------
(* C27 *)

\* the sequence es without its member e, the others in the order they have
OrderKept(es, e) == SelectSeq(es, LAMBDA x : x # e)

\* no element is visited twice
VisitsOnce(es) == \A i, j \in 1..Len(es) : i # j => es[i] # es[j]

\* C27: dcm_dataset_foreach calls fn once for each element of the data set,
\* in the order of their insertion: the visits are those of before with the
\* new element last after a successful insert, those of before without the
\* removed element (the others in their order) after a successful remove,
\* and those of before after a failed insert or remove and after every
\* other call; what a call of foreach visits is that.
C27_ForeachInInsertionOrder ==
    [][\A d \in DOMAIN dataset \cap DOMAIN dataset' :
          LET before == dcm_dataset_foreach(Heap, d)
              after == dcm_dataset_foreach(HeapNext, d)
          IN  /\ VisitsOnce(after)
              /\ Range(after) = Range(dataset'[d].elements)
              /\ IF last'.op = "dataset_insert" /\ last'.ok /\ last'.d = d
                 THEN after = Append(before, last'.e)
                 ELSE IF last'.op = "dataset_remove" /\ last'.ok /\ last'.d = d
                 THEN /\ Len(after) = Len(before) - 1
                      /\ \E e \in Range(before) :
                            /\ element[e].tag = last'.arg[1]
                            /\ after = OrderKept(before, e)
                 ELSE after = before
              /\ (last'.op = "dataset_foreach" /\ last'.d = d) => last'.val = after]_vars

\* foreach has visited two elements of which the first was created after
\* the second: an element was removed from the set and another inserted
C27_Witness ==
    /\ last.op = "dataset_foreach"
    /\ Len(last.val) = 2
    /\ last.val[1] > last.val[2]

----------------------------------------------------------------------------
(* C28 *)

\* the call c of dcm_bot_get_frame_offset asks for a frame of the table
AsksFrameOfTable(c) ==
    /\ c.op = "bot_get_frame_offset"
    /\ c.arg[1] \in DOMAIN bot
    /\ 1 <= c.arg[2] /\ c.arg[2] <= dcm_bot_get_num_frames(Heap, c.arg[1])

\* offsets[k-1] + first_frame_offset of the table b
OffsetOfFrame(b, k) == buffer[bot[b].offsets].d[k] + bot[b].first_frame_offset

\* C28: with memory for the table, dcm_bot_create succeeds exactly when
\* num_frames > 0 and offsets is not null; and for every k from 1 to
\* num_frames dcm_bot_get_frame_offset(bot, k) returns
\* offsets[k-1] + first_frame_offset.
C28_BotOffsets ==
    /\ (last.op = "bot_create" /\ last.arg[4] > 0) =>
          (last.ok <=> (last.arg[2] > 0 /\ last.arg[1] # NULL))
    /\ (last.op = "bot_create" /\ last.ok) =>
          /\ last.ret \in DOMAIN bot
          /\ dcm_bot_get_num_frames(Heap, last.ret) = last.arg[2]
    /\ AsksFrameOfTable(last) =>
          /\ last.ok
          /\ last.ret = OffsetOfFrame(last.arg[1], last.arg[2])

----------------------------------------------------------------------------
(* C29 *)

\* the arguments a are those of a frame: pixel data of some length, numbers
\* of bits that are 1 or a multiple of 8, flags that are 0 or 1
FrameArgsValid(a) ==
    /\ a.data # NULL /\ a.length > 0
    /\ a.bits_allocated = 1 \/ \E n \in 0..U16 : a.bits_allocated = 8 * n
    /\ a.bits_stored = 1 \/ \E n \in 0..U16 : a.bits_stored = 8 * n
    /\ a.pixel_representation \in {0, 1}
    /\ a.planar_configuration \in {0, 1}

\* the accessors of the frame f return the arguments a
AccessorsReturn(f, a) ==
    /\ dcm_frame_get_number(Heap, f) = a.number
    /\ dcm_frame_get_length(Heap, f) = a.length
    /\ dcm_frame_get_rows(Heap, f) = a.rows
    /\ dcm_frame_get_columns(Heap, f) = a.columns
    /\ dcm_frame_get_samples_per_pixel(Heap, f) = a.samples_per_pixel
    /\ dcm_frame_get_bits_allocated(Heap, f) = a.bits_allocated
    /\ dcm_frame_get_bits_stored(Heap, f) = a.bits_stored
    /\ dcm_frame_get_pixel_representation(Heap, f) = a.pixel_representation
    /\ dcm_frame_get_planar_configuration(Heap, f) = a.planar_configuration
    /\ dcm_frame_get_value(Heap, f) = a.data
    /\ buffer[dcm_frame_get_photometric_interpretation(Heap, f)].d
          = a.photometric_interpretation
    /\ buffer[dcm_frame_get_transfer_syntax_uid(Heap, f)].d = a.transfer_syntax_uid

\* C29: with memory for the frame, dcm_frame_create succeeds exactly when
\* data is not null, length > 0, bits_allocated and bits_stored are 1 or a
\* multiple of 8 and pixel_representation and planar_configuration are 0 or
\* 1, and fails with INVALID otherwise; the accessors of a frame it returns
\* give the arguments, and get_high_bit gives bits_stored - 1, a bit
\* position below bits_stored.
C29_FrameChecks ==
    (last.op = "frame_create") =>
       /\ last.arg[2] = 3 => (last.ok <=> FrameArgsValid(last.arg[1]))
       /\ ~FrameArgsValid(last.arg[1]) => ~last.ok /\ last.err = "INVALID"
       /\ last.ok =>
             /\ last.ret \in DOMAIN frame
             /\ AccessorsReturn(last.ret, last.arg[1])
             /\ dcm_frame_get_high_bit(Heap, last.ret) = last.arg[1].bits_stored - 1
             /\ dcm_frame_get_high_bit(Heap, last.ret) < last.arg[1].bits_stored

----------------------------------------------------------------------------
(* C30 *)

\* the four transfer syntaxes that are not encapsulated
NativeTransferSyntaxes ==
    {ImplicitVRLittleEndian, ExplicitVRLittleEndian,
     DeflatedExplicitVRLittleEndian, ExplicitVRBigEndian}

\* C30: dcm_is_encapsulated_transfer_syntax(uid) is false when uid is one of
\* 1.2.840.10008.1.2, 1.2.840.10008.1.2.1, 1.2.840.10008.1.2.1.99 and
\* 1.2.840.10008.1.2.2, and true for every other string, the beginnings and
\* the continuations of those four too.
C30_EncapsulatedTransferSyntax ==
    (last.op = "is_encapsulated_transfer_syntax") =>
       (last.ret <=> last.arg[1] \notin NativeTransferSyntaxes)

\* the test has answered true for 1.2.840.10008.1.2.1.9, which continues
\* two of the four UIDs and begins a third
C30_Witness ==
    /\ last.op = "is_encapsulated_transfer_syntax"
    /\ last.ret = TRUE
    /\ last.arg[1] = ExplicitVRLittleEndian \o <<".", "9">>

----------------------------------------------------------------------------
(* C31 *)

\* the provisional length rounded up to an even number
EvenRounded(length) == IF length % 2 # 0 THEN length + 1 ELSE length

\* the step is a successful dcm_element_create with a provisional length
\* that is not 0
CreatesWithLength ==
    /\ last'.op = "element_create" /\ last'.ok
    /\ last'.arg[2] # 0

\* a length that is not 0 is never written again
LengthKept ==
    \A e \in DOMAIN element \cap DOMAIN element' :
        element[e].length # 0 => element'[e].length = element[e].length

\* C31: an element created with a provisional length that is not 0 has
\* that length, rounded up to even, and keeps it through every later call,
\* the setters that succeed and those that fail: a length that is not 0
\* is never written again.
C31_ProvisionalLengthKept ==
    [][/\ CreatesWithLength =>
             element'[last'.ret].length = EvenRounded(last'.arg[2])
       /\ LengthKept]_vars

----------------------------------------------------------------------------
(* C32 *)

\* the assigned elements of a BINARY value representation
AssignedBinary ==
    {e \in DOMAIN element :
        element[e].assigned /\ dcm_dict_vr_class(element[e].vr) = "BINARY"}

\* the number of bytes of the buffer value.single.bytes points at
BytesAt(e) ==
    IF element[e].value.k = "bytes" /\ element[e].value.x \in DOMAIN buffer
    THEN Len(buffer[element[e].value.x].d) ELSE 0

\* C32: every assigned BINARY element has vm 1 and points at a byte buffer
\* of exactly length(e) bytes, whatever provisional length it was created
\* with and whatever length set_value_binary was given, so that the
\* length(e) bytes dcm_element_clone copies are bytes of that buffer.
C32_BinaryBufferHasLength ==
    \A e \in AssignedBinary :
        /\ element[e].vm = 1
        /\ element[e].value.k = "bytes"
        /\ element[e].value.x \in DOMAIN buffer
        /\ BytesAt(e) = element[e].length

----------------------------------------------------------------------------
(* IntSpec: one element of each integer VR and of FD, created with no      *)
(* provisional length or with that of a 32-bit value, set with the         *)
(* integers around the limits of each integer type, and read back.         *)

IntTags == {1, 2, 3, 8, 9, 10, 11}

IntLengths == {0, 4}

\* the int64_t values around the limits of a type of w bits
Around(w) ==
    {-Pow2(w - 1) - 1, -Pow2(w - 1), Pow2(w - 1) - 1, Pow2(w - 1),
     Pow2(w) - 1, Pow2(w), Pow2(w) + 1}

\* every value of an int64_t
Int64Range == (-Pow2(LongBits - 1))..(Pow2(LongBits - 1) - 1)

IntValues ==
    ({-1, 0, 1} \cup Around(16) \cup Around(WordBits) \cup Around(LongBits))
        \cap Int64Range

IntNext ==
    \/ \E tag \in IntTags, length \in IntLengths :
          DOMAIN element = {} /\ CallElementCreate(tag, length)
    \/ \E e \in ElemIds : CallElementDestroy(e)
    \/ \E e \in ElemIds, value \in IntValues : CallSetValueInteger(e, value)
    \/ \E e \in ElemIds, value \in Doubles : CallSetValueDouble(e, value)
    \/ \E e \in ElemIds : CallGetValueInteger(e, 0)
    \/ \E e \in ElemIds : CallGetValueDouble(e, 0)

IntSpec == Init /\ [][IntNext]_vars

----------------------------------------------------------------------------
(* C33 *)

\* the low w bits of value, as the number they are in binary
LowBits(w, value) == value % Pow2(w)

\* w bits sign-extended or zero-extended
Extended(w, signed, bits) ==
    IF signed /\ bits >= Pow2(w - 1) THEN bits - Pow2(w) ELSE bits

\* a number taken as the int64_t of the same low bits
AsInt64(x) == Extended(LongBits, TRUE, LowBits(LongBits, x))

\* what get_value_integer(0) returns after set_value_integer(value)
ReadBack(vr, value) ==
    AsInt64(Extended(IntBits(vr), IntSigned(vr), LowBits(IntBits(vr), value)))

\* the step is a call of set_value_integer on an element of an integer VR
\* that passes the checks of the class
SetsInteger(e) ==
    /\ last'.op = "set_value_integer" /\ last'.e = e
    /\ ~element[e].assigned
    /\ element_check_numeric(element[e]) /\ element_check_integer(element[e])

\* the step is an integer setter on FL or FD, or the double setter on an
\* integer VR
WrongNumericSetter(e) ==
    /\ last'.e = e
    /\ element_check_numeric(element[e])
    /\ \/ last'.op = "set_value_integer" /\ element_check_float(element[e])
       \/ last'.op = "set_value_double" /\ element_check_integer(element[e])

\* set_value_integer stores the low w bits of the value and
\* get_value_integer(0) returns them sign-extended or zero-extended
StoresLowBits(e) ==
    LET vr == element[e].vr
        value == last'.arg[1]
        g == dcm_element_get_value_integer(HeapNext, element'[e], 0)
    IN  /\ element'[e].value.k = "num"
        /\ LowBits(IntBits(vr), element'[e].value.x) = LowBits(IntBits(vr), value)
        /\ last'.ok => g.ok /\ g.val = ReadBack(vr, value)

\* the original statement: the getter returns the value that was set
\* exactly when the value is in the range of the VR, which for UV is
\* 0 <= value < 2^63
C33_ReadsBackExactlyInRange ==
    [][\A e \in DOMAIN element :
          (SetsInteger(e) /\ last'.ok) =>
             (dcm_element_get_value_integer(HeapNext, element'[e], 0).val = last'.arg[1]
                <=> IntegerInRange(element[e].vr, last'.arg[1]))]_vars

\* C33: set_value_integer on an element of an integer VR of w bits stores
\* the low w bits of the value, and get_value_integer(0) then returns these
\* bits sign-extended (SS, SL, SV) or zero-extended (US, UL, UV) and taken
\* as an int64_t; so the getter returns the value that was set exactly when
\* the value is in the range of the VR, except for UV, where it returns the
\* value that was set for every value, the negative ones too; set_integer
\* on FL or FD and set_double on an integer VR fail with INVALID.
C33_IntegerNarrowing ==
    [][\A e \in DOMAIN element :
          /\ SetsInteger(e) =>
                /\ StoresLowBits(e)
                /\ last'.ok =>
                      LET g == dcm_element_get_value_integer(HeapNext, element'[e], 0)
                      IN  IF element[e].vr = "UV"
                          THEN g.val = last'.arg[1]
                          ELSE g.val = last'.arg[1]
                                  <=> IntegerInRange(element[e].vr, last'.arg[1])
          /\ WrongNumericSetter(e) =>
                /\ ~last'.ok /\ last'.err = "INVALID"
                /\ element' = element]_vars

\* a UV element was set to -1 and get_value_integer returned -1
C33_Witness ==
    /\ last.op = "get_value_integer" /\ last.ok
    /\ last.e \in DOMAIN element
    /\ element[last.e].vr = "UV"
    /\ element[last.e].value.x = Pow2(LongBits) - 1
    /\ last.val = -1

----------------------------------------------------------------------------
(* OwnSpec: the caller builds trees out of objects it owns, and also       *)
(* passes on the pointer the call before returned: the item of             *)
(* dcm_sequence_get to dcm_sequence_append, the element of dcm_dataset_get *)
(* to dcm_dataset_insert and to dcm_element_set_value_sequence, and the    *)
(* sequence of dcm_element_get_value_sequence to                           *)
(* dcm_element_set_value_sequence.  The run is followed up to the first    *)
(* state in which an object has two owners, an owner that was destroyed    *)
(* or itself below it.                                                     *)

\* the places of the data set d in the sequences
ItemPlaces(H, d) ==
    UNION {{<<s, i>> : i \in {j \in DOMAIN H.sq[s].items : H.sq[s].items[j] = d}} :
              s \in DOMAIN H.sq}

\* the places of the element e in the data sets
ElementPlaces(H, e) ==
    UNION {{<<d, i>> : i \in {j \in DOMAIN H.ds[d].elements : H.ds[d].elements[j] = e}} :
              d \in DOMAIN H.ds}

\* the elements that own the sequence s
SequenceOwners(H, s) == {e \in DOMAIN H.el : H.el[e].sequence_pointer = s}

\* every pointer of an owner is to an object that is allocated
NoneDangling(H) ==
    /\ \A d \in DOMAIN H.ds : Range(H.ds[d].elements) \subseteq DOMAIN H.el
    /\ \A s \in DOMAIN H.sq : Range(H.sq[s].items) \subseteq DOMAIN H.ds
    /\ \A e \in DOMAIN H.el :
          H.el[e].sequence_pointer # NULL => H.el[e].sequence_pointer \in DOMAIN H.sq

\* the data sets at most n ownership steps (item, element, sequence) below
\* the sequences of the data sets in ds
RECURSIVE DataSetsBelow(_, _, _)
DataSetsBelow(H, ds, n) ==
    IF n = 0 THEN {}
    ELSE LET next == {d \in DOMAIN H.ds :
                        \E p \in ds, e \in DOMAIN H.el :
                           /\ p \in DOMAIN H.ds
                           /\ e \in Range(H.ds[p].elements)
                           /\ H.el[e].sequence_pointer \in DOMAIN H.sq
                           /\ d \in Range(H.sq[H.el[e].sequence_pointer].items)}
         IN  next \cup DataSetsBelow(H, next, n - 1)

\* no data set is below itself
Acyclic(H) == \A d \in DOMAIN H.ds : d \notin DataSetsBelow(H, {d}, MaxDataSets)

SingleOwner(H) ==
    /\ \A d \in DOMAIN H.ds : Cardinality(ItemPlaces(H, d)) <= 1
    /\ \A e \in DOMAIN H.el : Cardinality(ElementPlaces(H, e)) <= 1
    /\ \A s \in DOMAIN H.sq : Cardinality(SequenceOwners(H, s)) <= 1

Forest(H) == NoneDangling(H) /\ SingleOwner(H) /\ Acyclic(H)

\* the pointer the call before returned
Returned(op) == last.op = op /\ last.ok /\ last.ret # NULL

AppendReturned(s) ==
    /\ s \in DOMAIN sequence
    /\ Returned("sequence_get")
    /\ Return("sequence_append", NULL, last.ret, s,
              dcm_sequence_append(Heap, s, last.ret))

InsertReturned(d) ==
    /\ d \in DOMAIN dataset
    /\ Returned("dataset_get")
    /\ Return("dataset_insert", last.ret, d, NULL,
              dcm_dataset_insert(Heap, d, last.ret))

SetSequenceOfReturned(s) ==
    /\ RootSequence(Heap, s)
    /\ Returned("dataset_get")
    /\ Return("set_value_sequence", last.ret, NULL, s,
              dcm_element_set_value_sequence(Heap, last.ret, s))

SetReturnedSequence(e) ==
    /\ RootElement(Heap, e)
    /\ Returned("get_value_sequence")
    /\ Return("set_value_sequence", e, NULL, last.ret,
              dcm_element_set_value_sequence(Heap, e, last.ret))

\* the objects make a forest: the run goes on
Sound == Forest(Heap)

OwnNext ==
    \/ \E tag \in SeqTags :
          /\ Sound /\ Cardinality(DOMAIN element) < SeqElements
          /\ CallElementCreate(tag, 0)
    \/ Sound /\ CallDatasetCreate
    \/ Sound /\ CallSequenceCreate
    \/ \E d \in DsIds, e \in ElemIds : Sound /\ CallDatasetInsert(d, e)
    \/ \E s \in SeqIds, d \in DsIds : Sound /\ CallSequenceAppend(s, d)
    \/ \E e \in ElemIds, s \in SeqIds : Sound /\ CallSetValueSequence(e, s)
    \/ \E d \in DsIds, tag \in SeqTags : Sound /\ CallDatasetGet(d, tag)
    \/ \E s \in SeqIds, index \in 0..1 : Sound /\ CallSequenceGet(s, index)
    \/ \E e \in ElemIds : Sound /\ CallGetValueSequence(e)
    \/ \E s \in SeqIds : Sound /\ AppendReturned(s)
    \/ \E d \in DsIds : Sound /\ InsertReturned(d)
    \/ \E s \in SeqIds : Sound /\ SetSequenceOfReturned(s)
    \/ \E e \in ElemIds : Sound /\ SetReturnedSequence(e)

OwnSpec == Init /\ [][OwnNext]_vars

----------------------------------------------------------------------------
(* C34 *)

\* C34: in every state the calls of the API reach, the calls that pass on
\* a pointer returned by dcm_sequence_get, dcm_dataset_get or
\* dcm_element_get_value_sequence included, each data set is an item of at
\* most one sequence and at most once, each element is in at most one data
\* set, each sequence is owned by at most one element, and no object is
\* below itself: the ownership graph is a forest.
C34_SingleOwnership == SingleOwner(Heap) /\ Acyclic(Heap)

----------------------------------------------------------------------------
(* CloneSpec: elements with an integer or a sequence, data sets, sequences *)
(* and the three clone calls.                                              *)

\* the heap has room for a copy of everything d owns
CanCloneDataSet(H, d) ==
    LET t == DsTree(H, d)
    IN  /\ HasFree(H.el, ElemIds, Cardinality(t.el))
        /\ HasFree(H.ds, DsIds, Cardinality(t.ds))
        /\ HasFree(H.sq, SeqIds, Cardinality(t.sq))
        /\ HasFree(H.buf, BufIds, Cardinality(t.el))

CallDatasetClone(d, u) ==
    /\ d \in DOMAIN dataset
    /\ CanCloneDataSet(Heap, d)
    /\ Return("dataset_clone", NULL, d, NULL, dcm_dataset_clone(Heap, d, u))

CallDatasetGetClone(d, tag, u) ==
    /\ d \in DOMAIN dataset
    /\ \A e \in Range(dataset[d].elements) : CanClone(Heap, e)
    /\ ReturnArg("dataset_get_clone", NULL, d, NULL, <<tag>>,
                 dcm_dataset_get_clone(Heap, d, tag, u))

\* the outcomes of undefined reads do not matter here: the values cloned
\* are integers and sequences
CloneChoices == {u \in UChoices : u.junk = <<>> /\ u.byte = 0}

CloneNext ==
    \/ \E tag \in SeqTags :
          /\ NoRootElement
          /\ Cardinality(DOMAIN element) < SeqElements
          /\ CallElementCreate(tag, 0)
    \/ \E e \in ElemIds : CallSetValueInteger(e, 1)
    \/ \E e \in ElemIds, s \in SeqIds : CallSetValueSequence(e, s)
    \/ NoRootDataSet /\ CallDatasetCreate
    \/ \E d \in DsIds, e \in ElemIds : CallDatasetInsert(d, e)
    \/ NoRootSequence /\ CallSequenceCreate
    \/ \E s \in SeqIds, d \in DsIds : CallSequenceAppend(s, d)
    \/ \E e \in ElemIds, u \in CloneChoices : CallElementClone(e, u)
    \/ \E d \in DsIds, u \in CloneChoices : CallDatasetClone(d, u)
    \/ \E d \in DsIds, tag \in SeqTags, u \in CloneChoices :
          CallDatasetGetClone(d, tag, u)
    \/ \E e \in ElemIds : CallElementDestroy(e)
    \/ \E d \in DsIds : CallDatasetDestroy(d)
    \/ \E s \in SeqIds : CallSequenceDestroy(s)

CloneSpec == Init /\ [][CloneNext]_vars

----------------------------------------------------------------------------
(* C35 *)

CloneOps == {"element_clone", "dataset_clone", "dataset_get_clone"}

\* the elements the clone call of this step copies from
SourceElements ==
    CASE last'.op = "element_clone" -> {last'.e}
      [] last'.op = "dataset_clone" -> Range(dataset[last'.d].elements)
      [] last'.op = "dataset_get_clone" ->
            {e \in Range(dataset[last'.d].elements) : element[e].tag = last'.arg[1]}
      [] OTHER -> {}

\* what the source elements own
SourceTree ==
    [el |-> UNION {ElTree(Heap, e).el : e \in SourceElements},
     ds |-> UNION {ElTree(Heap, e).ds : e \in SourceElements}
               \cup (IF last'.op = "element_clone" THEN {} ELSE {last'.d}),
     sq |-> UNION {ElTree(Heap, e).sq : e \in SourceElements}]

\* the source elements and the values they point at are as before the call
SourceElementsKept ==
    /\ \A e \in SourceElements : e \in DOMAIN element' /\ element'[e] = element[e]
    /\ \A b \in DOMAIN buffer : b \in DOMAIN buffer' /\ buffer'[b] = buffer[b]

\* the is_locked flags below the source are as before the call
SourceLocksKept ==
    /\ \A s \in SourceTree.sq :
          s \in DOMAIN sequence' /\ sequence'[s].is_locked = sequence[s].is_locked
    /\ \A d \in SourceTree.ds :
          d \in DOMAIN dataset' /\ dataset'[d].is_locked = dataset[d].is_locked

\* C35: dcm_element_clone, dcm_dataset_clone and dcm_dataset_get_clone
\* leave their source as it was, whether they succeed or fail: the tag, vr,
\* vm, length, assigned flag and value of the source element, and the
\* is_locked flag of every sequence and data set reachable from the source.
C35_CloneKeepsSource ==
    [][last'.op \in CloneOps => SourceElementsKept /\ SourceLocksKept]_vars

\* the same but for the sequence a source element owns, which the call
\* leaves locked
CloneKeepsAllButSequenceLock ==
    [][last'.op \in CloneOps =>
          /\ SourceElementsKept
          /\ \A d \in SourceTree.ds :
                d \in DOMAIN dataset' /\ dataset'[d].is_locked = dataset[d].is_locked
          /\ \A s \in SourceTree.sq :
                /\ s \in DOMAIN sequence'
                /\ sequence'[s].items = sequence[s].items
                /\ sequence[s].is_locked => sequence'[s].is_locked]_vars

----------------------------------------------------------------------------
(* TreeSpec: trees of elements (with an integer, a byte buffer or a        *)
(* sequence), data sets and sequences, and the three destroy calls on      *)
(* their roots.  A destroy action records the objects the call frees, in   *)
(* the order of the calls of free().                                       *)

RECURSIVE element_frees(_, _)
RECURSIVE dataset_frees(_, _)
RECURSIVE sequence_frees(_, _)
RECURSIVE elements_frees(_, _)
RECURSIVE items_frees(_, _)

\* the objects dcm_element_destroy frees, in order: those of the owned
\* sequence, value_pointer, value_pointer_array, the element
element_frees(H, e) ==
    IF e = NULL THEN <<>>
    ELSE (IF H.el[e].sequence_pointer # NULL
          THEN sequence_frees(H, H.el[e].sequence_pointer) ELSE <<>>)
         \o (IF H.el[e].value_pointer # NULL
             THEN << <<"buf", H.el[e].value_pointer>> >> ELSE <<>>)
         \o (IF H.el[e].value_pointer_array # NULL
             THEN << <<"buf", H.el[e].value_pointer_array>> >> ELSE <<>>)
         \o << <<"el", e>> >>

\* HASH_ITER of dcm_dataset_destroy
elements_frees(H, es) ==
    IF es = <<>> THEN <<>>
    ELSE element_frees(H, Head(es)) \o elements_frees(H, Tail(es))

\* the objects dcm_dataset_destroy frees: those of each element, the set
dataset_frees(H, d) ==
    IF d = NULL THEN <<>>
    ELSE elements_frees(H, H.ds[d].elements) \o << <<"ds", d>> >>

\* utarray_free: destroy_sequence_item_icd on every item
items_frees(H, items) ==
    IF items = <<>> THEN <<>>
    ELSE (IF Head(items) # NULL THEN dataset_frees(H, Head(items)) ELSE <<>>)
         \o items_frees(H, Tail(items))

\* the objects dcm_sequence_destroy frees: those of each item, the sequence
sequence_frees(H, s) ==
    IF s = NULL THEN <<>>
    ELSE items_frees(H, H.sq[s].items) \o << <<"sq", s>> >>

DestroyElementTree(e) ==
    /\ RootElement(Heap, e)
    /\ SetHeap(dcm_element_destroy(Heap, e))
    /\ last' = Call("element_destroy", e, NULL, NULL, TRUE, "NONE", NULL,
                    element_frees(Heap, e))

DestroyDataSetTree(d) ==
    /\ RootDataSet(Heap, d)
    /\ SetHeap(dcm_dataset_destroy(Heap, d))
    /\ last' = Call("dataset_destroy", NULL, d, NULL, TRUE, "NONE", NULL,
                    dataset_frees(Heap, d))

DestroySequenceTree(s) ==
    /\ RootSequence(Heap, s)
    /\ SetHeap(dcm_sequence_destroy(Heap, s))
    /\ last' = Call("sequence_destroy", NULL, NULL, s, TRUE, "NONE", NULL,
                    sequence_frees(Heap, s))

TreeTags == {1, 6, 7}

TreeNext ==
    \/ \E tag \in TreeTags :
          Cardinality(DOMAIN element) < SeqElements /\ CallElementCreate(tag, 0)
    \/ \E e \in ElemIds : CallSetValueBinary(e, <<1, 1>>, TRUE)
    \/ \E e \in ElemIds, s \in SeqIds : CallSetValueSequence(e, s)
    \/ CallDatasetCreate
    \/ \E d \in DsIds, e \in ElemIds : CallDatasetInsert(d, e)
    \/ CallSequenceCreate
    \/ \E s \in SeqIds, d \in DsIds : CallSequenceAppend(s, d)
    \/ \E e \in ElemIds : DestroyElementTree(e)
    \/ \E d \in DsIds : DestroyDataSetTree(d)
    \/ \E s \in SeqIds : DestroySequenceTree(s)

TreeSpec == Init /\ [][TreeNext]_vars

----------------------------------------------------------------------------
(* C36 *)

DestroyOps == {"element_destroy", "dataset_destroy", "sequence_destroy"}

\* what the root given to the destroy call of this step owns
DestroyedTree ==
    CASE last'.op = "element_destroy" -> ElTree(Heap, last'.e)
      [] last'.op = "dataset_destroy" -> DsTree(Heap, last'.d)
      [] last'.op = "sequence_destroy" -> SqTree(Heap, last'.s)
      [] OTHER -> NoTree

\* the buffers the elements in es own
OwnedBuffers(es) ==
    ({element[e].value_pointer : e \in es}
        \cup {element[e].value_pointer_array : e \in es}) \ {NULL}

\* the objects of the tree t, buffers included
ObjectsOf(t) ==
    {<<"el", e>> : e \in t.el} \cup {<<"ds", d>> : d \in t.ds}
        \cup {<<"sq", s>> : s \in t.sq} \cup {<<"buf", b>> : b \in OwnedBuffers(t.el)}

\* p owns c
Owns(p, c) ==
    \/ p[1] = "ds" /\ c[1] = "el" /\ c[2] \in Range(dataset[p[2]].elements)
    \/ p[1] = "el" /\ c[1] = "sq" /\ element[p[2]].sequence_pointer = c[2]
    \/ p[1] = "el" /\ c[1] = "buf"
          /\ c[2] \in {element[p[2]].value_pointer, element[p[2]].value_pointer_array}
    \/ p[1] = "sq" /\ c[1] = "ds" /\ c[2] \in Range(sequence[p[2]].items)

\* every object of the tree is freed, once, and nothing else
FreedOnce(frees, t) ==
    /\ Range(frees) = ObjectsOf(t)
    /\ \A i, j \in DOMAIN frees : frees[i] = frees[j] => i = j

\* an object is freed before its owner
ChildrenFirst(frees) ==
    \A i, j \in DOMAIN frees : Owns(frees[j], frees[i]) => i < j

\* the heap after the call is the heap before without the tree
OnlyTreeGone(t) ==
    /\ element' = [e \in DOMAIN element \ t.el |-> element[e]]
    /\ dataset' = [d \in DOMAIN dataset \ t.ds |-> dataset[d]]
    /\ sequence' = [s \in DOMAIN sequence \ t.sq |-> sequence[s]]
    /\ buffer' = [b \in DOMAIN buffer \ OwnedBuffers(t.el) |-> buffer[b]]

\* C36: destroying the root of a tree (a data set, a sequence, an element
\* that owns a sequence) ends, and frees every object the root owns exactly
\* once and each before its owner: the elements of a data set before the
\* set, the sequence of an element before the element, the items of a
\* sequence before the sequence; every other object is as it was.
C36_DestroyTree ==
    [][last'.op \in DestroyOps =>
          /\ FreedOnce(last'.val, DestroyedTree)
          /\ ChildrenFirst(last'.val)
          /\ OnlyTreeGone(DestroyedTree)]_vars

\* a tree of five or more objects was destroyed and another object is left
C36_Witness ==
    /\ last.op \in DestroyOps
    /\ Len(last.val) >= 5
    /\ \E i \in DOMAIN last.val : last.val[i][1] = "buf"
    /\ DOMAIN element \cup DOMAIN dataset \cup DOMAIN sequence # {}

====
